---- MODULE Spec2Model ----
(***************************************************************************)
(* Workspace-scoped file system layer of mdx-desktop (src-tauri):          *)
(* path validation (fs/validation.rs), file operations (fs/operations.rs), *)
(* the command layer (commands/*.rs) and the workspace state               *)
(* (state/mod.rs).                                                          *)
(*                                                                         *)
(* A string (Rust String / PathBuf) is a sequence of one-character         *)
(* strings, so that substring tests, joining and splitting into path       *)
(* components are computed, not assumed.  A location in the file system is *)
(* a sequence of names (a canonical, symlink-free absolute path).          *)
(***************************************************************************)
EXTENDS Integers, Sequences, FiniteSets, TLC

VARIABLES
    fs,         \* the file system tree: location -> node
    config,     \* AppState.config: [workspace_dir, last_dialog_dir], each an Option<PathBuf>
    disk,       \* the config file: Absent or the config it holds
    vTarget,    \* validate_path: the target string under test
    vResult,    \* validate_path: the value it returned
    last,       \* the most recent command: inputs, validator runs, fs calls, result
    nops,       \* number of commands executed so far
    dirents,    \* atomic write: the target's directory, name -> inode id (0 = no entry)
    inodes,     \* atomic write: inode id -> bytes
    wr,         \* atomic write: per writer, its position, open file and offset
    seen,       \* atomic write: the target's first content and what a reader last read
    rdonly,     \* atomic write: the target's directory does not allow writing
    scan,       \* directory scanner: the most recent listing and how it was asked for
    th,         \* AppState: per thread, the call it is in and its position
    lock,       \* AppState.config's RwLock: the writer holding it and the readers
    obs,        \* AppState: what the reader calls returned
    mode        \* which part of the program this behaviour exercises

vars ==
    <<fs, config, disk, vTarget, vResult, last, nops, dirents, inodes, wr, seen,
      rdonly, scan, th, lock, obs, mode>>

-----------------------------------------------------------------------------
(* Bounds *)

MaxLen == 5     \* longest target string given to validate_path
MaxOps == 3     \* commands executed in one behaviour
LinkDepth == 2  \* symlinks followed in one resolution before ELOOP
CopyDepth == 4  \* directory levels copy_recursive descends
MaxRenames == 1 \* calls of rename_path in one behaviour
MaxUsize == 4   \* usize::MAX, the width of offset and limit scaled down
NumThreads == 2 \* threads that call into the AppState at the same time
MaxStateCalls == 1 \* calls of one thread in one behaviour
MaxRestarts == 1 \* restarts of the process in one behaviour

-----------------------------------------------------------------------------
(* Strings *)

Alphabet == {"/", ".", "a", "b", "l"}

RECURSIVE StrsOfLen(_)
StrsOfLen(n) ==
    IF n = 0 THEN {<<>>}
    ELSE {Append(s, c) : s \in StrsOfLen(n - 1), c \in Alphabet}

Targets == UNION {StrsOfLen(n) : n \in 0..MaxLen}

DotDot == <<".", ".">>

\* str::contains(pat)
Contains(s, pat) ==
    \E i \in 1..(Len(s) - Len(pat) + 1) : SubSeq(s, i, i + Len(pat) - 1) = pat

IsPrefixSeq(p, s) == Len(p) <= Len(s) /\ SubSeq(s, 1, Len(p)) = p

\* the pieces of s between separators, empty pieces included
RECURSIVE RawSplit(_)
RawSplit(s) ==
    IF \A i \in 1..Len(s) : s[i] # "/" THEN <<s>>
    ELSE LET i == CHOOSE k \in 1..Len(s) :
                      s[k] = "/" /\ \A j \in 1..(k - 1) : s[j] # "/"
         IN <<SubSeq(s, 1, i - 1)>> \o RawSplit(SubSeq(s, i + 1, Len(s)))

IsNormal(c) == c # <<>> /\ c # <<".">>

\* Path::components of an absolute path, without the root component:
\* empty pieces and "." are normalised away, ".." is kept
Components(s) == SelectSeq(RawSplit(s), IsNormal)

\* Path::is_absolute (unix)
IsAbsolute(s) == s # <<>> /\ s[1] = "/"

RECURSIVE ToStr(_)
\* the path string of a location
ToStr(loc) ==
    IF loc = <<>> THEN <<"/">>
    ELSE IF Len(loc) = 1 THEN <<"/">> \o loc[1]
    ELSE ToStr(SubSeq(loc, 1, Len(loc) - 1)) \o <<"/">> \o loc[Len(loc)]

\* a join that forgets the separator
Join_nosep(base, t) == IF IsAbsolute(t) THEN t ELSE base \o t

\* PathBuf::join / push
Join(base, t) ==
    IF IsAbsolute(t) THEN t
    ELSE IF base # <<>> /\ base[Len(base)] = "/" THEN base \o t
    ELSE base \o <<"/">> \o t

\* Path::parent of an absolute path: None when the path is the root
HasParent(s) == Components(s) # <<>>
Parent(s) == ToStr(SubSeq(Components(s), 1, Len(Components(s)) - 1))

\* Path::file_name: None when the path ends in ".." or is the root
HasFileName(s) == Components(s) # <<>> /\ Components(s)[Len(Components(s))] # DotDot
FileName(s) == Components(s)[Len(Components(s))]

StartsWithStr(p, base) == IsPrefixSeq(base, p)
\* Path::starts_with: whole components only
StartsWith(p, base) == IsPrefixSeq(Components(base), Components(p))

-----------------------------------------------------------------------------
(* The file system *)

Dir == [kind |-> "dir", data |-> <<>>, to |-> <<>>]
File(d) == [kind |-> "file", data |-> d, to |-> <<>>]
Link(t) == [kind |-> "link", data |-> <<>>, to |-> t]
\* a directory on which another volume is mounted
Mount == [kind |-> "dir", data |-> <<"volume">>, to |-> <<>>]

Exists(f, loc) == loc = <<>> \/ loc \in DOMAIN f
IsDir(f, loc) == loc = <<>> \/ (loc \in DOMAIN f /\ f[loc].kind = "dir")
IsFile(f, loc) == loc \in DOMAIN f /\ f[loc].kind = "file"
IsLink(f, loc) == loc \in DOMAIN f /\ f[loc].kind = "link"

OkLoc(loc) == [ok |-> TRUE, loc |-> loc, err |-> "none"]
ErrLoc(e) == [ok |-> FALSE, loc |-> <<>>, err |-> e]

RECURSIVE Walk(_, _, _, _)
\* realpath(3): resolve the pieces one by one from location cur
Walk(f, cur, pieces, depth) ==
    IF pieces = <<>> THEN OkLoc(cur)
    ELSE IF ~IsDir(f, cur) THEN ErrLoc("ENOTDIR")
    ELSE LET c == Head(pieces)
             rest == Tail(pieces)
             nxt == Append(cur, c)
         IN IF ~IsNormal(c) THEN Walk(f, cur, rest, depth)
            ELSE IF c = DotDot
                 THEN Walk(f, SubSeq(cur, 1, Len(cur) - 1), rest, depth)
            ELSE IF nxt \notin DOMAIN f THEN ErrLoc("ENOENT")
            ELSE IF f[nxt].kind = "link"
                 THEN IF depth = 0 THEN ErrLoc("ELOOP")
                      ELSE LET r == Walk(f, <<>>, RawSplit(f[nxt].to), depth - 1)
                           IN IF r.ok THEN Walk(f, r.loc, rest, depth) ELSE r
            ELSE Walk(f, nxt, rest, depth)

\* Path::canonicalize of an absolute path string
Canonicalize(f, s) == Walk(f, <<>>, RawSplit(s), LinkDepth)

-----------------------------------------------------------------------------
(* fs/validation.rs *)

Ok(p) == [kind |-> "Ok", path |-> p]
Err(k) == [kind |-> k, path |-> <<>>]
NotRun == [kind |-> "NotRun", path |-> <<>>]

\* a test for a ".." component instead of the substring
HasDotDot_component(target) ==
    \E i \in DOMAIN RawSplit(target) : RawSplit(target)[i] = DotDot

\* validation.rs:25, the literal substring test
HasDotDot(target) == Contains(target, DotDot)

\* validation.rs:38-43
FullPath(base_canonical, target) ==
    IF IsAbsolute(target) THEN target ELSE Join(base_canonical, target)

\* validation.rs:76-84, the target exists and final_path is its canonical path
ValidateExisting(final_path, base_canonical) ==
    IF ~StartsWith(final_path, base_canonical)
    THEN Err("PathTraversal")
    ELSE Ok(final_path)

\* the parent branch handing back the canonical parent joined with the name
ValidateMissing_canonical(f, full_path, base_canonical) ==
    IF HasParent(full_path)
    THEN LET pc == Canonicalize(f, Parent(full_path)) IN
         IF ~pc.ok THEN Err("InvalidPath")
         ELSE IF ~StartsWith(ToStr(pc.loc), base_canonical)
              THEN Err("PathTraversal")
              ELSE Ok(ToStr(Append(pc.loc, FileName(full_path))))
    ELSE Err("InvalidPath")

\* the parent branch looking one directory further up when the parent is
\* missing
ValidateMissing_ancestor(f, full_path, base_canonical) ==
    IF HasParent(full_path)
    THEN LET pc == Canonicalize(f, Parent(full_path))
             gc == Canonicalize(f, Parent(Parent(full_path)))
         IN IF pc.ok
            THEN IF ~StartsWith(ToStr(pc.loc), base_canonical)
                 THEN Err("PathTraversal")
                 ELSE Ok(full_path)
            ELSE IF HasParent(Parent(full_path)) /\ gc.ok
                     /\ StartsWith(ToStr(gc.loc), base_canonical)
                 THEN Ok(full_path)
                 ELSE Err("InvalidPath")
    ELSE Err("InvalidPath")

\* the parent branch without the check of the parent against the base
ValidateMissing_unchecked(f, full_path, base_canonical) ==
    IF HasParent(full_path)
    THEN LET pc == Canonicalize(f, Parent(full_path)) IN
         IF ~pc.ok THEN Err("InvalidPath") ELSE Ok(full_path)
    ELSE Err("InvalidPath")

\* validation.rs:50-73, canonicalize failed: check the parent instead
ValidateMissing(f, full_path, base_canonical) ==
    IF HasParent(full_path)
    THEN LET pc == Canonicalize(f, Parent(full_path)) IN
         IF ~pc.ok THEN Err("InvalidPath")
         ELSE IF ~StartsWith(ToStr(pc.loc), base_canonical)
              THEN Err("PathTraversal")
              ELSE Ok(full_path)
    ELSE Err("InvalidPath")

validate_path(f, base_dir, target) ==
    IF HasDotDot(target) THEN Err("PathTraversal")
    ELSE LET bc == Canonicalize(f, base_dir) IN
      IF ~bc.ok THEN Err("InvalidPath")
      ELSE LET base_canonical == ToStr(bc.loc)
               full_path == FullPath(base_canonical, target)
               fc == Canonicalize(f, full_path)
           IN IF fc.ok
              THEN ValidateExisting(ToStr(fc.loc), base_canonical)
              ELSE ValidateMissing(f, full_path, base_canonical)

-----------------------------------------------------------------------------
(* state/mod.rs: the workspace *)

NoWs == [some |-> FALSE, path |-> <<>>]
SomeWs(p) == [some |-> TRUE, path |-> p]

\* state/mod.rs:23-30
DefaultConfig == [workspace_dir |-> NoWs, last_dialog_dir |-> NoWs]

\* state/mod.rs:103-106
get_workspace(cfg) == cfg.workspace_dir

\* a byte that is not UTF-8, as a path can hold one
NonUtf8 == "0xFF"

\* the fixed pieces of the pretty-printed object
JOpen == "{\n  \"workspace_dir\": "
JMid == ",\n  \"last_dialog_dir\": "
JClose == "\n}"
JNull == "null"
Quote == "\""
Backslash == "\\"

\* a string written without escapes
EscapeChar_raw(c) == <<c>>
\* serde_json's string escapes for the characters of a path
EscapeChar(c) ==
    IF c = Quote THEN <<Backslash, Quote>>
    ELSE IF c = Backslash THEN <<Backslash, Backslash>>
    ELSE <<c>>

RECURSIVE Escaped(_)
Escaped(str) == IF str = <<>> THEN <<>> ELSE EscapeChar(str[1]) \o Escaped(Tail(str))

\* Serialize for Option<PathBuf>: null, or the path as a string; a path
\* that is not UTF-8 is an error
IsUtf8(opt) == \A i \in DOMAIN opt.path : opt.path[i] # NonUtf8
JsonValue(opt) ==
    IF opt.some THEN <<Quote>> \o Escaped(opt.path) \o <<Quote>> ELSE <<JNull>>

\* state/mod.rs:91, serde_json::to_string_pretty(&*config)
to_string_pretty(cfg) ==
    IF IsUtf8(cfg.workspace_dir) /\ IsUtf8(cfg.last_dialog_dir)
    THEN [ok |-> TRUE,
          text |-> <<JOpen>> \o JsonValue(cfg.workspace_dir) \o <<JMid>>
                      \o JsonValue(cfg.last_dialog_dir) \o <<JClose>>]
    ELSE [ok |-> FALSE, text |-> <<>>]

ParseFail == [ok |-> FALSE, val |-> NoWs, next |-> 0]

RECURSIVE ParseString(_, _, _)
\* the characters of a string up to its closing quote, escapes undone
ParseString(text, i, acc) ==
    IF i > Len(text) THEN ParseFail
    ELSE IF text[i] = Quote THEN [ok |-> TRUE, val |-> SomeWs(acc), next |-> i + 1]
    ELSE IF text[i] = Backslash
    THEN IF i + 1 <= Len(text) /\ text[i + 1] \in {Quote, Backslash}
         THEN ParseString(text, i + 2, Append(acc, text[i + 1]))
         ELSE ParseFail
    ELSE IF text[i] \in {JOpen, JMid, JClose, JNull} THEN ParseFail
    ELSE ParseString(text, i + 1, Append(acc, text[i]))

\* Deserialize for Option<PathBuf> at position i
ParseValue(text, i) ==
    IF i > Len(text) THEN ParseFail
    ELSE IF text[i] = JNull THEN [ok |-> TRUE, val |-> NoWs, next |-> i + 1]
    ELSE IF text[i] = Quote THEN ParseString(text, i + 1, <<>>)
    ELSE ParseFail

NotParsed == [ok |-> FALSE, config |-> DefaultConfig]
ParseEnd(text, w, l) ==
    IF l.ok /\ l.next = Len(text) /\ text[l.next] = JClose
    THEN [ok |-> TRUE, config |-> [workspace_dir |-> w.val, last_dialog_dir |-> l.val]]
    ELSE NotParsed
ParseSecond(text, w) ==
    IF w.ok /\ w.next <= Len(text) /\ text[w.next] = JMid
    THEN ParseEnd(text, w, ParseValue(text, w.next + 1))
    ELSE NotParsed

\* state/mod.rs:71, serde_json::from_str(&content)
from_str(text) ==
    IF text # <<>> /\ text[1] = JOpen THEN ParseSecond(text, ParseValue(text, 2))
    ELSE NotParsed

\* the config file: missing, or holding a text
Absent == [present |-> FALSE, text |-> <<>>]
Holding(text) == [present |-> TRUE, text |-> text]
Stored(cfg) == Holding(to_string_pretty(cfg).text)

\* state/mod.rs:62-78, load() into a config; the file missing is Ok
load(cfg, dsk) ==
    IF ~dsk.present THEN [ret |-> "Ok", config |-> cfg]
    ELSE IF from_str(dsk.text).ok THEN [ret |-> "Ok", config |-> from_str(dsk.text).config]
    ELSE [ret |-> "IoError", config |-> cfg]

\* the workspace unwrapped without the test for None
validate_path_with_state_unguarded(f, ws, target) == validate_path(f, ws.path, target)

\* validation.rs:107-114
validate_path_with_state(f, ws, target) ==
    IF ~ws.some THEN Err("InvalidPath")
    ELSE validate_path(f, ws.path, target)

-----------------------------------------------------------------------------
(* File system contents the behaviours start from *)

nA == <<"a">>
nB == <<"b">>
nL == <<"l">>
nAB == <<"a", "b">>
nTmp == <<"a", ".", "t", "m", "p">>

Old == <<"o1", "o2">>
New == <<"n1", "n2">>
Secret == <<"s1", "s2">>

\* /a is the workspace: a file /a/a and a directory /a/b;
\* /ab is a sibling directory outside it, holding /ab/b
CoreFS ==
    (<<nA>> :> Dir) @@ (<<nA, nA>> :> File(Old)) @@ (<<nA, nB>> :> Dir)
    @@ (<<nAB>> :> Dir) @@ (<<nAB, nB>> :> File(Secret))

\* what the symlink /a/l may point to: a directory outside, a missing file
\* outside, a directory inside, itself
LinkTargets ==
    { <<"/", "a", "b">>, <<"/", "a", "b", "/", "a">>,
      <<"/", "a", "/", "b">>, <<"/", "a", "/", "l">> }

WithLink(t) == CoreFS @@ (<<nA, nL>> :> Link(t))

InitFS == {CoreFS} \cup {WithLink(t) : t \in LinkTargets}

\* the workspace directory: /a, the symlink /a/l, or a directory that is gone
Roots == { <<"/", "a">>, <<"/", "a", "/", "l">>, <<"/", "n">> }

-----------------------------------------------------------------------------
(* Initial values of the parts a behaviour does not exercise *)

IdleLast ==
    [op |-> "none", ws |-> NoWs, arg |-> <<>>, big |-> FALSE, root |-> <<>>,
     validated |-> {}, called |-> {}, touched |-> {}, ret |-> "none"]

NoDirents == <<>>
NoInodes == <<>>
NoWriters == <<>>
NoSeen == [first |-> <<>>, read |-> <<>>]
NoScan == [op |-> "none"]
NoThreads == <<>>
FreeLock == [writer |-> 0, readers |-> {}]
NoObs == {}

\* the scanner and the shared state, for the behaviours that do not run them
Others == <<scan, th, lock, obs>>
IdleOthers ==
    /\ scan = NoScan
    /\ th = NoThreads
    /\ lock = FreeLock
    /\ obs = NoObs

-----------------------------------------------------------------------------
(* validate_path as a function of the file system, the root and the target *)

InitValidate ==
    /\ mode = "validate"
    /\ fs \in InitFS
    /\ config \in {[workspace_dir |-> SomeWs(r), last_dialog_dir |-> SomeWs(r)] : r \in Roots}
    /\ disk = Absent
    /\ vTarget \in Targets
    /\ vResult = NotRun
    /\ last = IdleLast
    /\ nops = 0
    /\ dirents = NoDirents
    /\ inodes = NoInodes
    /\ wr = NoWriters
    /\ seen = NoSeen
    /\ rdonly = FALSE
    /\ IdleOthers

Validate ==
    /\ mode = "validate"
    /\ vResult = NotRun
    /\ vResult' = validate_path(fs, get_workspace(config).path, vTarget)
    /\ UNCHANGED <<fs, config, disk, vTarget, last, nops, dirents, inodes, wr, seen, rdonly, Others, mode>>

NextValidate == Validate

SpecValidate == InitValidate /\ [][NextValidate]_vars


-----------------------------------------------------------------------------
(* The system calls the operations make.  A result is the new file system, *)
(* the errno ("none" on success) and the locations read, created, changed  *)
(* or removed.                                                             *)

Sys(f, errno, touched) == [fs |-> f, err |-> errno, touched |-> touched]

Put(f, loc, node) ==
    [x \in DOMAIN f \cup {loc} |-> IF x = loc THEN node ELSE f[x]]
Drop(f, S) == [x \in DOMAIN f \ S |-> f[x]]
Subtree(f, loc) == {x \in DOMAIN f : IsPrefixSeq(loc, x)}
Children(f, loc) ==
    {x \in DOMAIN f : Len(x) = Len(loc) + 1 /\ IsPrefixSeq(loc, x)}

LastPiece(s) == RawSplit(s)[Len(RawSplit(s))]

\* the volume a location is on, named by the mount point above it
VolumeOf(f, loc) ==
    LET ks == {k \in 0..Len(loc) :
                  k = 0 \/ (SubSeq(loc, 1, k) \in DOMAIN f /\ f[SubSeq(loc, 1, k)] = Mount)}
    IN SubSeq(loc, 1, CHOOSE k \in ks : \A j \in ks : j <= k)

\* rename(2) compares the mounts of the two parent directories
CrossDevice(f, src, dst) ==
    VolumeOf(f, SubSeq(src, 1, Len(src) - 1)) # VolumeOf(f, SubSeq(dst, 1, Len(dst) - 1))

\* the directory entry a path names: every component but the last is
\* resolved, a symlink in the last one is not followed
Entry(f, s) ==
    LET cs == Components(s) IN
    IF cs = <<>> \/ cs[Len(cs)] = DotDot THEN Canonicalize(f, s)
    ELSE LET p == Walk(f, <<>>, SubSeq(cs, 1, Len(cs) - 1), LinkDepth) IN
         IF ~p.ok THEN p
         ELSE IF ~IsDir(f, p.loc) THEN ErrLoc("ENOTDIR")
         ELSE OkLoc(Append(p.loc, cs[Len(cs)]))

RECURSIVE CreateLoc(_, _, _)
\* where open(O_CREAT) lands: a symlink in the last component is followed,
\* also when it dangles
CreateLoc(f, s, depth) ==
    IF ~IsNormal(LastPiece(s))
    THEN LET c == Canonicalize(f, s) IN IF c.ok THEN c ELSE ErrLoc("EISDIR")
    ELSE LET e == Entry(f, s) IN
         IF ~e.ok THEN e
         ELSE IF IsLink(f, e.loc)
              THEN IF depth = 0 THEN ErrLoc("ELOOP")
                   ELSE CreateLoc(f, f[e.loc].to, depth - 1)
         ELSE e

\* File::create: open(O_WRONLY | O_CREAT | O_TRUNC)
os_create(f, s) ==
    LET c == CreateLoc(f, s, LinkDepth) IN
    IF ~c.ok THEN Sys(f, c.err, {})
    ELSE IF IsDir(f, c.loc) THEN Sys(f, "EISDIR", {})
    ELSE Sys(Put(f, c.loc, File(<<>>)), "none", {c.loc})

\* write_all + sync_all on the file os_create opened
os_write(f, s, content) ==
    LET c == CreateLoc(f, s, LinkDepth) IN
    Sys(Put(f, c.loc, File(content)), "none", {c.loc})

\* rename(2)
os_rename(f, from, to) ==
    LET src == Entry(f, from)
        dst == Entry(f, to)
        moved == [x \in Subtree(f, src.loc) |->
                    dst.loc \o SubSeq(x, Len(src.loc) + 1, Len(x))]
        keep == (DOMAIN f \ Subtree(f, src.loc)) \ {dst.loc}
        g == [y \in keep \cup {moved[x] : x \in Subtree(f, src.loc)} |->
                IF y \in keep THEN f[y]
                ELSE f[CHOOSE x \in Subtree(f, src.loc) : moved[x] = y]]
    IN IF ~src.ok THEN Sys(f, src.err, {})
       ELSE IF ~dst.ok THEN Sys(f, dst.err, {})
       ELSE IF CrossDevice(f, src.loc, dst.loc) THEN Sys(f, "EXDEV", {})
       ELSE IF src.loc \notin DOMAIN f THEN Sys(f, "ENOENT", {})
       ELSE IF dst.loc = <<>> \/ f[src.loc] = Mount THEN Sys(f, "EBUSY", {})
       ELSE IF LastPiece(from) = <<".">> \/ LastPiece(to) = <<".">>
            THEN Sys(f, "EINVAL", {})
       ELSE IF ~IsDir(f, src.loc) /\ (LastPiece(from) = <<>> \/ LastPiece(to) = <<>>)
            THEN Sys(f, "ENOTDIR", {})
       ELSE IF src.loc = dst.loc THEN Sys(f, "none", {})
       ELSE IF IsPrefixSeq(src.loc, dst.loc) THEN Sys(f, "EINVAL", {})
       ELSE IF IsDir(f, src.loc) /\ dst.loc \in DOMAIN f /\ ~IsDir(f, dst.loc)
            THEN Sys(f, "ENOTDIR", {})
       ELSE IF IsDir(f, src.loc) /\ Children(f, dst.loc) # {}
            THEN Sys(f, "ENOTEMPTY", {})
       ELSE IF ~IsDir(f, src.loc) /\ IsDir(f, dst.loc) THEN Sys(f, "EISDIR", {})
       ELSE Sys(g, "none", {src.loc, dst.loc})

\* mkdir(2)
os_mkdir(f, s) ==
    LET e == Entry(f, s) IN
    IF ~e.ok THEN Sys(f, e.err, {})
    ELSE IF Exists(f, e.loc) THEN Sys(f, "EEXIST", {})
    ELSE IF LastPiece(s) = <<".">> THEN Sys(f, "ENOENT", {})
    ELSE Sys(Put(f, e.loc, Dir), "none", {e.loc})

\* remove_file: unlink(2)
os_unlink(f, s) ==
    LET e == Entry(f, s) IN
    IF ~e.ok THEN Sys(f, e.err, {})
    ELSE IF e.loc \notin DOMAIN f THEN Sys(f, "ENOENT", {})
    ELSE IF IsDir(f, e.loc) THEN Sys(f, "EISDIR", {})
    ELSE IF ~IsNormal(LastPiece(s)) THEN Sys(f, "ENOTDIR", {})
    ELSE Sys(Drop(f, {e.loc}), "none", {e.loc})

\* remove_dir_all: a symlink is removed itself, a directory with all below it
os_remove_dir_all(f, s) ==
    LET e == Entry(f, s) IN
    IF ~e.ok THEN Sys(f, e.err, {})
    ELSE IF e.loc \notin DOMAIN f THEN Sys(f, "ENOENT", {})
    ELSE IF IsLink(f, e.loc) THEN Sys(Drop(f, {e.loc}), "none", {e.loc})
    ELSE IF IsFile(f, e.loc) THEN Sys(f, "ENOTDIR", {})
    ELSE Sys(Drop(f, Subtree(f, e.loc)), "none", Subtree(f, e.loc))

RECURSIVE MkdirAll(_, _, _, _)
\* create_dir_all: every missing component is created, symlinks to
\* directories are followed
MkdirAll(f, cur, pieces, touched) ==
    IF pieces = <<>> THEN Sys(f, "none", touched)
    ELSE LET nxt == Append(cur, Head(pieces)) IN
         IF nxt \notin DOMAIN f
         THEN MkdirAll(Put(f, nxt, Dir), nxt, Tail(pieces), touched \cup {nxt})
         ELSE IF IsDir(f, nxt) THEN MkdirAll(f, nxt, Tail(pieces), touched)
         ELSE IF IsLink(f, nxt)
              THEN LET r == Walk(f, <<>>, RawSplit(f[nxt].to), LinkDepth - 1) IN
                   IF r.ok /\ IsDir(f, r.loc)
                   THEN MkdirAll(f, r.loc, Tail(pieces), touched)
                   ELSE Sys(f, "EEXIST", touched)
         ELSE Sys(f, "EEXIST", touched)

os_create_dir_all(f, s) == MkdirAll(f, <<>>, Components(s), {})

-----------------------------------------------------------------------------
(* error.rs and fs/operations.rs.  An operation returns the new file       *)
(* system, "Ok" or the AppError kind, and the locations it touched.        *)

Res(f, ret, touched) == [fs |-> f, ret |-> ret, touched |-> touched]

\* error.rs:42-53, From<std::io::Error>
ErrKind(errno) ==
    IF errno = "ENOENT" THEN "FileNotFound"
    ELSE IF errno = "EACCES" THEN "PermissionDenied"
    ELSE IF errno = "EINVAL" THEN "InvalidPath"
    ELSE "IoError"

FromSys(r) == Res(r.fs, IF r.err = "none" THEN "Ok" ELSE ErrKind(r.err), r.touched)

\* operations.rs:20-33 (the models' files are far below MAX_FILE_SIZE)
read_file_content(f, path) ==
    LET c == Canonicalize(f, path) IN
    IF ~c.ok THEN Res(f, ErrKind(c.err), {})
    ELSE IF IsDir(f, c.loc) THEN Res(f, "IoError", {})
    ELSE Res(f, "Ok", {c.loc})

TmpSuffix == <<".", "t", "m", "p">>

\* operations.rs:86-91, path.with_file_name(format!("{}.tmp", file_name))
TempPath(path) == Join(Parent(path), FileName(path) \o TmpSuffix)

\* operations.rs:85-108
\* operations.rs:100-107: the rename's outcome; on an error the temp file is
\* removed and the error returned
WfaRename(w, r, u) ==
    IF r.err = "none"
    THEN Res(r.fs, "Ok", w.touched \cup r.touched)
    ELSE Res(u.fs, ErrKind(r.err), w.touched \cup u.touched)

\* operations.rs:95-100: after write_all and sync_all, the rename
WfaWrite(w, temp_path, path) ==
    WfaRename(w, os_rename(w.fs, temp_path, path), os_unlink(w.fs, temp_path))

\* operations.rs:94-95: File::create(&temp_path)?, then the write
WfaCreate(f, c, temp_path, path, content) ==
    IF c.err # "none" THEN Res(f, ErrKind(c.err), {})
    ELSE WfaWrite(os_write(c.fs, temp_path, content), temp_path, path)

write_file_atomic(f, path, content) ==
    IF ~HasFileName(path) THEN Res(f, "InvalidPath", {})
    ELSE WfaCreate(f, os_create(f, TempPath(path)), TempPath(path), path, content)

\* operations.rs:120-125
create_file(f, path) == FromSys(os_create(f, path))

\* operations.rs:137-140
create_folder(f, path) == FromSys(os_mkdir(f, path))

\* operations.rs:152-162
delete_path(f, path) ==
    LET c == Canonicalize(f, path) IN
    IF ~c.ok THEN Res(f, ErrKind(c.err), {})
    ELSE IF IsFile(f, c.loc) THEN FromSys(os_unlink(f, path))
    ELSE FromSys(os_remove_dir_all(f, path))

\* fs::copy: the source is read through symlinks, the destination is created
\* or truncated and given the source's bytes
os_copy(f, from, to) ==
    LET c == os_create(f, to) IN
    IF c.err # "none" THEN c
    ELSE Sys(os_write(c.fs, to, f[Canonicalize(f, from).loc].data).fs, "none",
             {Canonicalize(f, from).loc} \cup c.touched)

RECURSIVE copy_recursive(_, _, _, _)
RECURSIVE CopyEntries(_, _, _, _, _)
RECURSIVE CopyDir(_, _, _, _)

\* operations.rs:202-208, the loop over read_dir(from): r is the state so
\* far, names the entries still to copy; the first error ends the loop
CopyEntries(r, from, to, names, depth) ==
    IF r.err # "none" \/ names = {} THEN r
    ELSE LET n == CHOOSE x \in names : TRUE
             c == copy_recursive(r.fs, Join(from, n), Join(to, n), depth)
         IN CopyEntries(Sys(c.fs, c.err, r.touched \cup c.touched),
                        from, to, names \ {n}, depth)

\* operations.rs:200-208, create_dir_all(to)?, then read_dir(from) is copied
\* entry by entry
CopyDir(r, from, to, depth) ==
    IF r.err # "none" THEN r
    ELSE CopyEntries(r, from, to,
                     {x[Len(x)] : x \in Children(r.fs, Canonicalize(r.fs, from).loc)},
                     depth)

\* operations.rs:193-213; depth bounds the recursion
copy_recursive(f, from, to, depth) ==
    IF ~Canonicalize(f, from).ok THEN Sys(f, Canonicalize(f, from).err, {})
    ELSE IF depth = 0 THEN Sys(f, "ENAMETOOLONG", {})
    ELSE IF IsFile(f, Canonicalize(f, from).loc) THEN os_copy(f, from, to)
    ELSE CopyDir(os_create_dir_all(f, to), from, to, depth - 1)

\* the source deleted whatever the copy returned
CopyThenDelete_eager(c, old_path) ==
    Res(delete_path(c.fs, old_path).fs,
        IF c.err # "none" THEN ErrKind(c.err) ELSE delete_path(c.fs, old_path).ret,
        c.touched \cup delete_path(c.fs, old_path).touched)
\* operations.rs:184-186, copy_recursive(..)?; delete_path(old_path)?; Ok(())
CopyThenDelete(c, old_path) ==
    IF c.err # "none" THEN Res(c.fs, ErrKind(c.err), c.touched)
    ELSE Res(delete_path(c.fs, old_path).fs, delete_path(c.fs, old_path).ret,
             c.touched \cup delete_path(c.fs, old_path).touched)

\* operations.rs:180-189, the outcome of the direct rename decides
RenameOutcome(f, r, old_path, new_path) ==
    IF r.err = "EXDEV"
    THEN CopyThenDelete(copy_recursive(f, old_path, new_path, CopyDepth), old_path)
    ELSE FromSys(r)

\* operations.rs:179-190
rename_path(f, old_path, new_path) ==
    RenameOutcome(f, os_rename(f, old_path, new_path), old_path, new_path)

\* explorer.rs:38-43, 46-54: the directory is listed
scan_directory(f, path) ==
    LET c == Canonicalize(f, path) IN
    IF ~c.ok \/ ~IsDir(f, c.loc) THEN Res(f, "InvalidPath", {})
    ELSE Res(f, "Ok", {c.loc})

\* explorer.rs:113-145
read_directory_lazy(f, path) ==
    LET c == Canonicalize(f, path) IN
    IF ~c.ok THEN Res(f, ErrKind(c.err), {})
    ELSE IF ~IsDir(f, c.loc) THEN Res(f, "InvalidPath", {})
    ELSE scan_directory(f, path)

\* explorer.rs:160-185
get_dir_page(f, path) == scan_directory(f, path)

-----------------------------------------------------------------------------
(* commands/file_ops.rs and commands/dir_ops.rs.  A command returns the    *)
(* new file system, "Ok" or the AppError kind, the locations touched, the  *)
(* answers of the validator it ran and the paths it handed to the          *)
(* operations.                                                             *)

Cmd(r, validated, called) ==
    [fs |-> r.fs, ret |-> r.ret, touched |-> r.touched,
     validated |-> validated, called |-> called]

Rejected(f, v) == Cmd(Res(f, v.kind, {}), {v}, {})

\* file_ops.rs:30-47
read_file(f, cfg, path) ==
    LET v == validate_path_with_state(f, get_workspace(cfg), path) IN
    IF v.kind # "Ok" THEN Rejected(f, v)
    ELSE Cmd(read_file_content(f, v.path), {v}, {v.path})

\* file_ops.rs:70-88
write_file(f, cfg, path, content) ==
    LET v == validate_path_with_state(f, get_workspace(cfg), path) IN
    IF v.kind # "Ok" THEN Rejected(f, v)
    ELSE Cmd(write_file_atomic(f, v.path, content), {v}, {v.path})

\* lib.rs:43 registers create_file_command; its body is not in file_ops.rs:
\* validate against the workspace, then create_file
create_file_command(f, cfg, path) ==
    LET v == validate_path_with_state(f, get_workspace(cfg), path) IN
    IF v.kind # "Ok" THEN Rejected(f, v)
    ELSE Cmd(create_file(f, v.path), {v}, {v.path})

\* file_ops.rs:239-258
rename_path_command(f, cfg, old_path, new_path) ==
    LET validated_old == validate_path_with_state(f, get_workspace(cfg), old_path)
        validated_new == validate_path_with_state(f, get_workspace(cfg), new_path)
    IN IF validated_old.kind # "Ok" THEN Rejected(f, validated_old)
       ELSE IF validated_new.kind # "Ok"
            THEN Cmd(Res(f, validated_new.kind, {}), {validated_old, validated_new}, {})
       ELSE Cmd(rename_path(f, validated_old.path, validated_new.path),
                {validated_old, validated_new},
                {validated_old.path, validated_new.path})

\* file_ops.rs:278-295
delete_path_command(f, cfg, path) ==
    LET v == validate_path_with_state(f, get_workspace(cfg), path) IN
    IF v.kind # "Ok" THEN Rejected(f, v)
    ELSE Cmd(delete_path(f, v.path), {v}, {v.path})

\* dir_ops.rs:29-46
create_folder_command(f, cfg, path) ==
    LET v == validate_path_with_state(f, get_workspace(cfg), path) IN
    IF v.kind # "Ok" THEN Rejected(f, v)
    ELSE Cmd(create_folder(f, v.path), {v}, {v.path})

\* dir_ops.rs:80-89 and 144-153: "" and "." take the workspace as it is stored
TargetDir(f, cfg, path) ==
    IF path = <<>> \/ path = <<".">>
    THEN IF get_workspace(cfg).some
         THEN [v |-> Ok(get_workspace(cfg).path), validated |-> {}]
         ELSE [v |-> Err("InvalidPath"), validated |-> {}]
    ELSE LET v == validate_path_with_state(f, get_workspace(cfg), path) IN
         [v |-> v, validated |-> {v}]

\* dir_ops.rs:74-101
read_directory(f, cfg, path) ==
    LET t == TargetDir(f, cfg, path) IN
    IF t.v.kind # "Ok" THEN Cmd(Res(f, t.v.kind, {}), t.validated, {})
    ELSE Cmd(read_directory_lazy(f, t.v.path), t.validated, {t.v.path})

\* dir_ops.rs:136-165
get_directory_page(f, cfg, path) ==
    LET t == TargetDir(f, cfg, path) IN
    IF t.v.kind # "Ok" THEN Cmd(Res(f, t.v.kind, {}), t.validated, {})
    ELSE Cmd(get_dir_page(f, t.v.path), t.validated, {t.v.path})

Alnum == {"a", "b", "g", "i", "l", "n", "p", "t", "x"}

\* file_ops.rs:105-116
sanitize_filename(filename) ==
    [i \in DOMAIN filename |->
        IF filename[i] \in Alnum \cup {"-", "_", "."} THEN filename[i] ELSE "_"]

\* file_ops.rs:172-176, rsplit('.').next(); the names here are lower case
Extension(s) ==
    IF \A i \in DOMAIN s : s[i] # "." THEN s
    ELSE LET i == CHOOSE k \in DOMAIN s :
                      s[k] = "." /\ \A j \in (k + 1)..Len(s) : s[j] # "."
         IN SubSeq(s, i + 1, Len(s))

\* file_ops.rs:91
ALLOWED_IMAGE_EXTENSIONS ==
    { <<"p", "n", "g">>, <<"j", "p", "g">>, <<"j", "p", "e", "g">>,
      <<"g", "i", "f">>, <<"w", "e", "b", "p">>, <<"s", "v", "g">> }

RECURSIVE TrimEndMatches(_, _)
\* str::trim_end_matches
TrimEndMatches(s, pat) ==
    IF Len(pat) > 0 /\ Len(s) >= Len(pat)
       /\ SubSeq(s, Len(s) - Len(pat) + 1, Len(s)) = pat
    THEN TrimEndMatches(SubSeq(s, 1, Len(s) - Len(pat)), pat)
    ELSE s

Assets == <<"a", "s", "s", "e", "t", "s">>
\* file_ops.rs:186-187 and 199: the clock's month and second
MonthDir == <<"2", "0", "2", "6", "-", "1", "1">>
Timestamp == <<"1">>

\* operations.rs exports write_file_binary (file_ops.rs:8, 208); its body is
\* not in operations.rs: the temp + rename discipline of write_file_atomic
write_file_binary(f, path, data) == write_file_atomic(f, path, data)

\* file_ops.rs:190-203: a name that is taken gets the timestamp before its
\* extension
UploadTarget(f, assets_dir, sanitized, extension) ==
    IF Canonicalize(f, Join(assets_dir, sanitized)).ok
    THEN Join(assets_dir, TrimEndMatches(sanitized, <<".">> \o extension)
                          \o <<"-">> \o Timestamp \o <<".">> \o extension)
    ELSE Join(assets_dir, sanitized)

\* file_ops.rs:206-216: the write and the command's answer
UploadWrite(mk, w, assets_dir, target_path) ==
    Cmd(Res(w.fs, w.ret, mk.touched \cup w.touched), {}, {assets_dir, target_path})

\* file_ops.rs:184-216: after create_dir_all(&assets_dir)
UploadInto(mk, assets_dir, target_path, data) ==
    IF mk.err # "none"
    THEN Cmd(Res(mk.fs, ErrKind(mk.err), mk.touched), {}, {assets_dir})
    ELSE UploadWrite(mk, write_file_binary(mk.fs, target_path, data),
                     assets_dir, target_path)

\* file_ops.rs:184-203: the assets directory is made, then the name chosen
UploadMkdir(mk, assets_dir, sanitized, extension, data) ==
    UploadInto(mk, assets_dir,
               UploadTarget(mk.fs, assets_dir, sanitized, extension), data)

\* file_ops.rs:143-217; big: data.len() > MAX_IMAGE_SIZE
upload_image(f, cfg, filename, big, data) ==
    LET workspace == get_workspace(cfg)
        sanitized == sanitize_filename(filename)
        extension == Extension(sanitized)
        assets_dir == Join(Join(workspace.path, Assets), MonthDir)
    IN IF big THEN Cmd(Res(f, "FileTooLarge", {}), {}, {})
       ELSE IF ~workspace.some THEN Cmd(Res(f, "InvalidPath", {}), {}, {})
       ELSE IF Contains(sanitized, <<"/">>) \/ Contains(sanitized, <<"\\">>)
            THEN Cmd(Res(f, "InvalidPath", {}), {}, {})
       ELSE IF extension \notin ALLOWED_IMAGE_EXTENSIONS
            THEN Cmd(Res(f, "InvalidPath", {}), {}, {})
       ELSE UploadMkdir(os_create_dir_all(f, assets_dir), assets_dir,
                        sanitized, extension, data)

-----------------------------------------------------------------------------
(* state/mod.rs: open and close *)

\* state/mod.rs:81-98; saved: the config directory and file could be written
save(cfg, dsk, saved) == IF saved THEN Stored(cfg) ELSE dsk

\* the workspace set and the dialog directory forgotten
set_workspace_wsonly(cfg, p) == [cfg EXCEPT !.workspace_dir = SomeWs(p)]
\* state/mod.rs:113-118
set_workspace(cfg, p) == [workspace_dir |-> SomeWs(p), last_dialog_dir |-> SomeWs(p)]

\* a close that forgets the dialog directory as well
clear_workspace_all(cfg) == DefaultConfig
\* state/mod.rs:123-127
clear_workspace(cfg) == [cfg EXCEPT !.workspace_dir = NoWs]

\* state/mod.rs:140-144
set_last_dialog_dir(cfg, p) == [cfg EXCEPT !.last_dialog_dir = SomeWs(p)]

-----------------------------------------------------------------------------
(* The commands as the dispatcher invokes them, one at a time *)

CmdTargets ==
    { <<>>, <<".">>, <<"a">>, <<"l">>, <<"b", "/", "a">>,
      <<"l", "/", "b">>, <<"/", "a", "b", "/", "b">>, <<".", ".", "/", "a", "b">> }

RenameTo == { <<"a">>, <<"b", "/", "a">>, <<"l", "/", "b">> }

Filenames == { <<"/", "i", ".", "p", "n", "g">>, <<"i", ".", "t", "x", "t">> }

OpenRoots == { <<"/", "a">>, <<"/", "a", "/", "l">> }

CmdFS == { CoreFS, WithLink(<<"/", "a", "b">>), WithLink(<<"/", "a", "b", "/", "a">>) }

\* the root the workspace stands for: its canonical location or, when it
\* does not canonicalize, the location it spells
RootOf(f, ws) ==
    IF Canonicalize(f, ws.path).ok THEN Canonicalize(f, ws.path).loc
    ELSE Components(ws.path)

InitCmd ==
    /\ mode = "cmd"
    /\ fs \in CmdFS
    /\ config = DefaultConfig
    /\ disk = Absent
    /\ vTarget = <<>>
    /\ vResult = NotRun
    /\ last = IdleLast
    /\ nops = 0
    /\ dirents = NoDirents
    /\ inodes = NoInodes
    /\ wr = NoWriters
    /\ seen = NoSeen
    /\ rdonly = FALSE
    /\ IdleOthers

\* a command ran to its end with result c
Done(op, arg, big, c) ==
    /\ mode = "cmd"
    /\ nops < MaxOps
    /\ nops' = nops + 1
    /\ fs' = c.fs
    /\ last' = [op |-> op, ws |-> get_workspace(config), arg |-> arg, big |-> big,
                root |-> RootOf(fs, get_workspace(config)),
                validated |-> c.validated, called |-> c.called,
                touched |-> c.touched, ret |-> c.ret]
    /\ UNCHANGED <<config, disk, vTarget, vResult, dirents, inodes, wr, seen, rdonly, Others, mode>>

ReadFile == \E t \in CmdTargets : Done("read_file", t, FALSE, read_file(fs, config, t))

WriteFile ==
    \E t \in CmdTargets : Done("write_file", t, FALSE, write_file(fs, config, t, New))

CreateFile ==
    \E t \in CmdTargets :
        Done("create_file", t, FALSE, create_file_command(fs, config, t))

RenamePath ==
    \E t \in CmdTargets, u \in RenameTo :
        Done("rename_path", t, FALSE, rename_path_command(fs, config, t, u))

DeletePath ==
    \E t \in CmdTargets :
        Done("delete_path", t, FALSE, delete_path_command(fs, config, t))

UploadImage ==
    \E n \in Filenames, big \in BOOLEAN :
        Done("upload_image", n, big, upload_image(fs, config, n, big, New))

CreateFolder ==
    \E t \in CmdTargets :
        Done("create_folder", t, FALSE, create_folder_command(fs, config, t))

ReadDirectory ==
    \E t \in CmdTargets :
        Done("read_directory", t, FALSE, read_directory(fs, config, t))

GetDirectoryPage ==
    \E t \in CmdTargets :
        Done("get_directory_page", t, FALSE, get_directory_page(fs, config, t))

\* dialog.rs:37-78 with a folder picked, state/mod.rs:113-120
OpenWorkspace ==
    \E p \in OpenRoots, saved \in BOOLEAN :
        /\ mode = "cmd"
        /\ nops < MaxOps
        /\ nops' = nops + 1
        /\ config' = set_workspace(config, p)
        /\ disk' = save(config', disk, saved)
        /\ last' = [IdleLast EXCEPT !.op = "open", !.ws = get_workspace(config),
                                    !.arg = p,
                                    !.ret = IF saved THEN "Ok" ELSE "IoError"]
        /\ UNCHANGED <<fs, vTarget, vResult, dirents, inodes, wr, seen, rdonly, Others, mode>>

\* dialog.rs:130-135, state/mod.rs:123-129
CloseWorkspace ==
    \E saved \in BOOLEAN :
        /\ mode = "cmd"
        /\ nops < MaxOps
        /\ nops' = nops + 1
        /\ config' = clear_workspace(config)
        /\ disk' = save(config', disk, saved)
        /\ last' = [IdleLast EXCEPT !.op = "close", !.ws = get_workspace(config),
                                    !.ret = IF saved THEN "Ok" ELSE "IoError"]
        /\ UNCHANGED <<fs, vTarget, vResult, dirents, inodes, wr, seen, rdonly, Others, mode>>

NextCmd ==
    \/ ReadFile
    \/ WriteFile
    \/ CreateFile
    \/ RenamePath
    \/ DeletePath
    \/ UploadImage
    \/ CreateFolder
    \/ ReadDirectory
    \/ GetDirectoryPage
    \/ OpenWorkspace
    \/ CloseWorkspace

SpecCmd == InitCmd /\ [][NextCmd]_vars

-----------------------------------------------------------------------------
(* A command that takes a path, one step for its validation and one for    *)
(* the file I/O it hands to the blocking pool, with the workspace opened    *)
(* and closed by other commands in between                                  *)

RaceOps == {"read_file", "write_file"}

IdleCommand ==
    [pc |-> "idle", op |-> "none", arg |-> <<>>, v |-> NotRun,
     ws |-> NoWs, root |-> <<>>, active |-> NoWs, activeRoot |-> <<>>,
     touched |-> {}, ret |-> "none"]

InitRace ==
    /\ mode = "race"
    /\ fs \in CmdFS
    /\ config \in {DefaultConfig, set_workspace(DefaultConfig, <<"/", "a">>)}
    /\ disk = Absent
    /\ vTarget = <<>>
    /\ vResult = NotRun
    /\ last = IdleLast
    /\ nops = 0
    /\ dirents = NoDirents
    /\ inodes = NoInodes
    /\ wr = NoWriters
    /\ seen = NoSeen
    /\ rdonly = FALSE
    /\ scan = NoScan
    /\ th = <<IdleCommand>>
    /\ lock = FreeLock
    /\ obs = NoObs

RaceFrame == <<vTarget, vResult, dirents, inodes, wr, seen, rdonly, scan, lock, obs, mode>>

\* file_ops.rs:38 and 77, validate_path_with_state(&state, &path)?
CommandValidate ==
    \E op \in RaceOps, t \in CmdTargets :
        LET v == validate_path_with_state(fs, get_workspace(config), t) IN
        /\ mode = "race"
        /\ th[1].pc = "idle"
        /\ nops < MaxOps
        /\ nops' = nops + 1
        /\ th' = [th EXCEPT ![1] =
                     [IdleCommand EXCEPT !.pc = IF v.kind = "Ok" THEN "validated" ELSE "done",
                                         !.op = op, !.arg = t, !.v = v,
                                         !.ws = get_workspace(config),
                                         !.root = RootOf(fs, get_workspace(config)),
                                         !.ret = IF v.kind = "Ok" THEN "none" ELSE v.kind]]
        /\ UNCHANGED <<fs, config, disk, last, RaceFrame>>

\* file_ops.rs:41-47 and 80-86, the task on the blocking pool: the file is
\* read or written at the validated path
CommandEffect ==
    LET c == th[1]
        r == IF c.op = "read_file" THEN read_file_content(fs, c.v.path)
             ELSE write_file_atomic(fs, c.v.path, New)
    IN /\ mode = "race"
       /\ c.pc = "validated"
       /\ fs' = r.fs
       /\ th' = [th EXCEPT ![1] =
                    [c EXCEPT !.pc = "done", !.ret = r.ret, !.touched = r.touched,
                              !.active = get_workspace(config),
                              !.activeRoot = RootOf(fs, get_workspace(config))]]
       /\ UNCHANGED <<config, disk, last, nops, RaceFrame>>

\* the command has returned; another may be invoked
CommandReturn ==
    /\ mode = "race"
    /\ th[1].pc = "done"
    /\ th' = [th EXCEPT ![1] = IdleCommand]
    /\ UNCHANGED <<fs, config, disk, last, nops, RaceFrame>>

\* dialog.rs:37-78 with a folder picked, state/mod.rs:113-120, while the
\* command runs
RaceOpenWorkspace ==
    \E p \in OpenRoots, saved \in BOOLEAN :
        /\ mode = "race"
        /\ nops < MaxOps
        /\ nops' = nops + 1
        /\ config' = set_workspace(config, p)
        /\ disk' = save(config', disk, saved)
        /\ last' = [IdleLast EXCEPT !.op = "open", !.ws = get_workspace(config),
                                    !.arg = p,
                                    !.ret = IF saved THEN "Ok" ELSE "IoError"]
        /\ UNCHANGED <<fs, th, RaceFrame>>

\* dialog.rs:130-135, state/mod.rs:123-129, while the command runs
RaceCloseWorkspace ==
    \E saved \in BOOLEAN :
        /\ mode = "race"
        /\ nops < MaxOps
        /\ nops' = nops + 1
        /\ config' = clear_workspace(config)
        /\ disk' = save(config', disk, saved)
        /\ last' = [IdleLast EXCEPT !.op = "close", !.ws = get_workspace(config),
                                    !.ret = IF saved THEN "Ok" ELSE "IoError"]
        /\ UNCHANGED <<fs, th, RaceFrame>>

NextRace ==
    \/ CommandValidate
    \/ CommandEffect
    \/ CommandReturn
    \/ RaceOpenWorkspace
    \/ RaceCloseWorkspace

SpecRace == InitRace /\ [][NextRace]_vars

-----------------------------------------------------------------------------
(* operations.rs:179-213, rename_path on a tree in which the directory     *)
(* /a/b is the mount point of a second volume.                             *)

\* /a/a a file, /a/l a directory holding a file and an empty directory, and
\* the second volume mounted on /a/b
RenameCore ==
    (<<nA>> :> Dir) @@ (<<nA, nA>> :> File(Old))
    @@ (<<nA, nL>> :> Dir) @@ (<<nA, nL, nA>> :> File(New)) @@ (<<nA, nL, nB>> :> Dir)
    @@ (<<nA, nB>> :> Mount)

\* the second volume empty, holding a directory /a/b/l with a file, or a
\* file /a/b/a; the source directory with a symlink to /a/a or a dangling one
RenameFS ==
    { RenameCore,
      RenameCore @@ (<<nA, nB, nL>> :> Dir) @@ (<<nA, nB, nL, nL>> :> File(Secret)),
      RenameCore @@ (<<nA, nB, nA>> :> File(Secret)),
      RenameCore @@ (<<nA, nL, nL>> :> Link(<<"/", "a", "/", "a">>)),
      RenameCore @@ (<<nA, nL, nL>> :> Link(<<"/", "n">>)) }

RenamePaths ==
    { ToStr(<<nA, nA>>), ToStr(<<nA, nL>>), ToStr(<<nA, nL, nA>>), ToStr(<<nA, nL, nL>>),
      ToStr(<<nA, nB, nA>>), ToStr(<<nA, nB, nL>>), ToStr(<<nA, nB, nB>>) }

InitRename ==
    /\ mode = "rename"
    /\ fs \in RenameFS
    /\ config = DefaultConfig
    /\ disk = Absent
    /\ vTarget = <<>>
    /\ vResult = NotRun
    /\ last = IdleLast
    /\ nops = 0
    /\ dirents = NoDirents
    /\ inodes = NoInodes
    /\ wr = NoWriters
    /\ seen = NoSeen
    /\ rdonly = FALSE
    /\ IdleOthers

\* one call of rename_path(old_path, new_path)
Rename ==
    \E old_path \in RenamePaths, new_path \in RenamePaths :
        /\ mode = "rename"
        /\ nops < MaxRenames
        /\ nops' = nops + 1
        /\ fs' = rename_path(fs, old_path, new_path).fs
        /\ last' = [IdleLast EXCEPT !.op = "rename_path",
                                    !.arg = <<old_path, new_path>>,
                                    !.called = {old_path, new_path},
                                    !.touched = rename_path(fs, old_path, new_path).touched,
                                    !.ret = rename_path(fs, old_path, new_path).ret]
        /\ UNCHANGED <<config, disk, vTarget, vResult, dirents, inodes, wr, seen, rdonly, Others, mode>>

NextRename == Rename

SpecRename == InitRename /\ [][NextRename]_vars

-----------------------------------------------------------------------------
(* fs/explorer.rs and fs/types.rs: what the scanner returns.  The walk      *)
(* hands over the entries of a directory in the order the system lists     *)
(* them, which is an input here.                                           *)

\* Option<Vec<FileNode>> and Option<u64>
NoChildren == [some |-> FALSE, list |-> <<>>]
SomeChildren(list) == [some |-> TRUE, list |-> list]
NoSize == -1

\* a node whose children are already loaded
FileNode_loaded(path, name, is_file, size) ==
    [path |-> path, name |-> name, is_file |-> is_file, size |-> size,
     children |-> SomeChildren(<<>>)]
\* types.rs:29-44, FileNode::new
FileNode(path, name, is_file, size) ==
    [path |-> path, name |-> name, is_file |-> is_file, size |-> size,
     children |-> NoChildren]

\* types.rs:47-50, with_children
with_children(node, children) == [node EXCEPT !.children = SomeChildren(children)]

\* types.rs:68-74, DirectoryPage::new
DirectoryPage(nodes, total_count, has_more) ==
    [nodes |-> nodes, total_count |-> total_count, has_more |-> has_more]

\* char::to_lowercase and the code points, for the characters of the names
Lower(c) == IF c = "A" THEN "a" ELSE IF c = "B" THEN "b" ELSE c
to_lowercase(name) == [i \in DOMAIN name |-> Lower(name[i])]
CodePoint(c) ==
    IF c = "." THEN 46 ELSE IF c = "A" THEN 65 ELSE IF c = "B" THEN 66
    ELSE IF c = "a" THEN 97 ELSE IF c = "b" THEN 98 ELSE 108

\* str::cmp = Less: the first difference decides, a proper prefix is less
StrLess(x, y) ==
    \E k \in 1..(Len(y)) :
        /\ k <= Len(x) + 1
        /\ \A j \in 1..(k - 1) : x[j] = y[j]
        /\ k = Len(x) + 1 \/ CodePoint(x[k]) < CodePoint(y[k])

\* a comparison by the name as it is, upper case before lower case
NodeLess_cased(a, b) ==
    \/ ~a.is_file /\ b.is_file
    \/ a.is_file = b.is_file /\ StrLess(a.name, b.name)
\* explorer.rs:91-97, the closure of sort_by answers Less
NodeLess(a, b) ==
    \/ ~a.is_file /\ b.is_file
    \/ a.is_file = b.is_file /\ StrLess(to_lowercase(a.name), to_lowercase(b.name))

\* an element goes behind the ones that are not greater than it
Insert(v, x) ==
    LET k == Cardinality({j \in DOMAIN v : ~NodeLess(x, v[j])})
    IN SubSeq(v, 1, k) \o <<x>> \o SubSeq(v, k + 1, Len(v))

RECURSIVE sort_by(_)
\* slice::sort_by, a stable sort: equal elements keep their order
sort_by(v) ==
    IF v = <<>> THEN <<>>
    ELSE Insert(sort_by(SubSeq(v, 1, Len(v) - 1)), v[Len(v)])

\* explorer.rs:46-48 and 59-62: the walk to depth 1 without the root,
\* hidden names skipped unless asked for
Walked(order, include_hidden) ==
    SelectSeq(order, LAMBDA n : include_hidden \/ n[1] # ".")

\* explorer.rs:64-85, the node of one entry
EntryNode(f, path, loc, n) ==
    FileNode(Join(path, n), n, IsFile(f, Append(loc, n)),
             IF IsFile(f, Append(loc, n)) THEN Len(f[Append(loc, n)].data) ELSE NoSize)

\* explorer.rs:50-89, the nodes in the order walked
Collected(f, path, loc, names) ==
    [i \in DOMAIN names |-> EntryNode(f, path, loc, names[i])]

\* explorer.rs:50-99, entries collected, then sorted
sorted_entries(f, path, order, include_hidden) ==
    sort_by(Collected(f, path, Canonicalize(f, path).loc,
                      Walked(order, include_hidden)))

\* a scanner's answer: Ok with a value, or the error
Answer(ret, out) == [ret |-> ret, out |-> out]

\* explorer.rs:38-100, path.is_dir() or InvalidPath
scan_entries(f, path, order, include_hidden) ==
    IF ~Canonicalize(f, path).ok \/ ~IsDir(f, Canonicalize(f, path).loc)
    THEN Answer("InvalidPath", <<>>)
    ELSE Answer("Ok", sorted_entries(f, path, order, include_hidden))

\* explorer.rs:113-145, the directory's node with its children; scanned
\* is the answer of scan_directory(path, depth 1)
lazy_node(f, path, scanned) ==
    IF ~Canonicalize(f, path).ok THEN Answer(ErrKind(Canonicalize(f, path).err), <<>>)
    ELSE IF ~IsDir(f, Canonicalize(f, path).loc) THEN Answer("InvalidPath", <<>>)
    ELSE IF scanned.ret # "Ok" THEN scanned
    ELSE Answer("Ok",
                with_children(
                    FileNode(path, IF HasFileName(path) THEN FileName(path) ELSE <<>>,
                             FALSE, NoSize),
                    scanned.out))

\* explorer.rs:175, offset + limit in usize: the sum, or a panic when the
\* build checks overflow, or the sum wrapped around when it does not
Overflows(offset, limit) == offset + limit > MaxUsize
Wrapped(offset, limit) == (offset + limit) % (MaxUsize + 1)
Min(a, b) == IF a < b THEN a ELSE b

\* explorer.rs:172-184, the slice and has_more; a range that ends before
\* it starts panics in the slice index
PageOf(all_entries, offset, limit) ==
    LET total_count == Len(all_entries)
        end == Min(Wrapped(offset, limit), total_count)
    IN IF offset < total_count /\ end < offset THEN Answer("IoError", <<>>)
       ELSE Answer("Ok",
                   DirectoryPage(IF offset < total_count
                                 THEN SubSeq(all_entries, offset + 1, end) ELSE <<>>,
                                 total_count, end < total_count))

\* explorer.rs:160-185, scanned being the answer of scan_directory;
\* checked: the build panics on overflow, and the command reports a
\* panicked task as IoError (dir_ops.rs:155-162)
directory_page(scanned, offset, limit, checked) ==
    IF scanned.ret # "Ok" THEN scanned
    ELSE IF checked /\ Overflows(offset, limit) THEN Answer("IoError", <<>>)
    ELSE PageOf(scanned.out, offset, limit)

-----------------------------------------------------------------------------
(* The scanner called on a directory that does not change                  *)

nUA == <<"A">>
nUB == <<"B">>
nHidden == <<".", "a">>

\* /a with b.txt, A.txt and a folder; with names that differ in case only
\* and a hidden file; with a name that is a prefix of another and two
\* folders that differ in case only; empty
ScanFS ==
    { (<<nA>> :> Dir) @@ (<<nA, nB>> :> File(Old)) @@ (<<nA, nUA>> :> File(New))
          @@ (<<nA, nL>> :> Dir) @@ (<<nA, nL, nA>> :> File(Old)),
      (<<nA>> :> Dir) @@ (<<nA, nA>> :> File(Old)) @@ (<<nA, nUA>> :> File(New))
          @@ (<<nA, nL>> :> Dir) @@ (<<nA, nL, nUB>> :> Dir) @@ (<<nA, nHidden>> :> File(<<>>)),
      (<<nA>> :> Dir) @@ (<<nA, nAB>> :> File(Old)) @@ (<<nA, nA>> :> File(<<>>))
          @@ (<<nA, nB>> :> Dir) @@ (<<nA, nUB>> :> Dir) @@ (<<nA, nB, nL>> :> File(New)),
      (<<nA>> :> Dir) @@ (<<nA, nL>> :> Dir) }

ScanPaths == { ToStr(<<nA>>), ToStr(<<nA, nL>>), ToStr(<<nA, nB>>) }

RECURSIVE Orders(_)
\* the orders in which a set of entries can be handed over
Orders(S) ==
    IF S = {} THEN {<<>>}
    ELSE UNION {{<<x>> \o o : o \in Orders(S \ {x})} : x \in S}

\* the names in a directory, none when the path is not one
NamesIn(f, path) ==
    IF Canonicalize(f, path).ok
    THEN {x[Len(x)] : x \in Children(f, Canonicalize(f, path).loc)}
    ELSE {}

\* the build checks integer overflow, or it does not
InitScan ==
    /\ mode = "scan"
    /\ fs \in ScanFS
    /\ config = DefaultConfig
    /\ disk = Absent
    /\ vTarget = <<>>
    /\ vResult = NotRun
    /\ last = IdleLast
    /\ nops = 0
    /\ dirents = NoDirents
    /\ inodes = NoInodes
    /\ wr = NoWriters
    /\ seen = NoSeen
    /\ rdonly = FALSE
    /\ \E checked \in BOOLEAN : scan = [op |-> "none", checked |-> checked]
    /\ th = NoThreads
    /\ lock = FreeLock
    /\ obs = NoObs

ScanFrame ==
    <<fs, config, disk, vTarget, vResult, last, nops, dirents, inodes, wr, seen,
      rdonly, th, lock, obs, mode>>

\* what a call leaves to look at: its arguments, the listing it sorted and
\* its answer
Scanned(op, path, include_hidden, offset, limit, all, ans) ==
    [op |-> op, checked |-> scan.checked, path |-> path,
     include_hidden |-> include_hidden, offset |-> offset, limit |-> limit,
     all |-> all, ans |-> ans]

\* the answers scan_directory can give, one for each order of the walk
Scans(f, path, include_hidden) ==
    {scan_entries(f, path, order, include_hidden) : order \in Orders(NamesIn(f, path))}

\* scan_directory(path, ScanOptions { max_depth: 1, include_hidden })
ScanDirectory ==
    \E path \in ScanPaths, include_hidden \in BOOLEAN :
        \E scanned \in Scans(fs, path, include_hidden) :
            /\ mode = "scan"
            /\ scan' = Scanned("scan_directory", path, include_hidden, 0, 0,
                               scanned.out, scanned)
            /\ UNCHANGED ScanFrame

\* read_directory_lazy(path, include_hidden)
ReadDirectoryLazy ==
    \E path \in ScanPaths, include_hidden \in BOOLEAN :
        \E scanned \in Scans(fs, path, include_hidden) :
            /\ mode = "scan"
            /\ scan' = Scanned("read_directory_lazy", path, include_hidden, 0, 0,
                               scanned.out, lazy_node(fs, path, scanned))
            /\ UNCHANGED ScanFrame

\* get_directory_page(path, offset, limit, include_hidden)
GetDirPage ==
    \E path \in ScanPaths, include_hidden \in BOOLEAN :
        \E scanned \in Scans(fs, path, include_hidden) :
            \E offset \in 0..MaxUsize, limit \in 0..MaxUsize :
                /\ mode = "scan"
                /\ scan' = Scanned("get_directory_page", path, include_hidden,
                                   offset, limit, scanned.out,
                                   directory_page(scanned, offset, limit, scan.checked))
                /\ UNCHANGED ScanFrame

NextScan == ScanDirectory \/ ReadDirectoryLazy \/ GetDirPage

SpecScan == InitScan /\ [][NextScan]_vars

-----------------------------------------------------------------------------
(* state/mod.rs: the AppState shared by threads, one lock operation or     *)
(* system call at a time, and the process restarted                        *)

Mutators == {"set_workspace", "clear_workspace", "set_last_dialog_dir"}
Getters == {"get_workspace", "get_last_dialog_dir", "get_config"}

\* a plain path, one with a quote, one with a backslash, one that is not UTF-8
StatePaths ==
    { <<"/", "a">>, <<"/", Quote>>, <<"/", Backslash, "a">>, <<"/", NonUtf8>> }

IdleThread ==
    [pc |-> "idle", op |-> "none", arg |-> <<>>, ret |-> "none",
     content |-> <<>>, before |-> DefaultConfig, file |-> Absent, calls |-> 0,
     failed |-> FALSE]

\* RwLock: a writer waits for the lock to be free, a reader for no writer
CanWrite_noreaders(l) == l.writer = 0
CanWrite(l) == l.writer = 0 /\ l.readers = {}
CanRead_unlocked(l) == TRUE
CanRead(l) == l.writer = 0

\* the assignments of a mutator in the order written: the first one, and
\* the config when the block ends
FirstAssigned(op, cfg, arg) ==
    IF op = "set_workspace" THEN [cfg EXCEPT !.workspace_dir = SomeWs(arg)]
    ELSE IF op = "clear_workspace" THEN clear_workspace(cfg)
    ELSE set_last_dialog_dir(cfg, arg)
Assigned(op, cfg, arg) ==
    IF op = "set_workspace" THEN set_workspace(cfg, arg)
    ELSE IF op = "clear_workspace" THEN clear_workspace(cfg)
    ELSE set_last_dialog_dir(cfg, arg)

\* what a getter returns from the config it reads
Got(op, cfg) ==
    IF op = "get_workspace" THEN cfg.workspace_dir
    ELSE IF op = "get_last_dialog_dir" THEN cfg.last_dialog_dir
    ELSE cfg

\* the config file an earlier run may have left
PriorConfig == set_last_dialog_dir(set_workspace(DefaultConfig, <<"/", "a">>), <<"/", "a", "b">>)

\* a file cut to nothing, with a piece of text left in it
Truncated_garbled == Holding(<<JOpen>>)
\* File::create on an existing file
Truncated == Holding(<<>>)

\* AppState::new(config_path) and load(): on a first start there is no
\* file yet, on a later one the file of the earlier run
InitState(threads) ==
    /\ mode = "state"
    /\ fs = CoreFS
    /\ disk \in {Absent, Stored(PriorConfig)}
    /\ config = load(DefaultConfig, disk).config
    /\ vTarget = <<>>
    /\ vResult = NotRun
    /\ last = IdleLast
    /\ nops = 0
    /\ dirents = NoDirents
    /\ inodes = NoInodes
    /\ wr = NoWriters
    /\ seen = NoSeen
    /\ rdonly = FALSE
    /\ scan = NoScan
    /\ th = [t \in threads |-> IdleThread]
    /\ lock = FreeLock
    /\ obs = NoObs

StateFrame ==
    <<fs, vTarget, vResult, dirents, inodes, wr, seen, rdonly, scan, mode>>

\* the mutator that returned last, with what it returned
ReturnedFrom(t, ret) ==
    [IdleLast EXCEPT !.op = th[t].op, !.arg = th[t].arg, !.ret = ret]

\* a thread calls a mutator or a getter
Call(t) ==
    \E op \in Mutators \cup Getters, arg \in StatePaths :
        /\ mode = "state"
        /\ th[t].pc \in {"idle", "done"}
        /\ th[t].calls < MaxStateCalls
        /\ op \in Getters \cup {"clear_workspace"} => arg = <<"/", "a">>
        /\ th' = [th EXCEPT ![t] = [IdleThread EXCEPT !.pc = "call", !.op = op,
                                                      !.arg = arg, !.file = disk,
                                                      !.calls = th[t].calls + 1,
                                                      !.failed = th[t].failed]]
        /\ UNCHANGED <<config, disk, last, nops, lock, obs, StateFrame>>

\* state/mod.rs:114-115, 125-126, 142-143: self.config.write() and the
\* first assignment
WriteLock(t) ==
    /\ mode = "state"
    /\ th[t].pc = "call" /\ th[t].op \in Mutators
    /\ CanWrite(lock)
    /\ lock' = [lock EXCEPT !.writer = t]
    /\ config' = FirstAssigned(th[t].op, config, th[t].arg)
    /\ th' = [th EXCEPT ![t].pc = "locked", ![t].before = config]
    /\ UNCHANGED <<disk, last, nops, obs, StateFrame>>

\* state/mod.rs:116-117, 127, 144: the rest of the block, the guard dropped
WriteUnlock(t) ==
    /\ mode = "state"
    /\ th[t].pc = "locked"
    /\ config' = Assigned(th[t].op, th[t].before, th[t].arg)
    /\ lock' = [lock EXCEPT !.writer = 0]
    /\ th' = [th EXCEPT ![t].pc = "save"]
    /\ UNCHANGED <<disk, last, nops, obs, StateFrame>>

\* state/mod.rs:82-92: self.config.read(), create_dir_all, and the config
\* serialized; an error returns with the guard dropped
SaveLock(t) ==
    /\ mode = "state"
    /\ th[t].pc = "save"
    /\ CanRead(lock)
    /\ IF to_string_pretty(config).ok
       THEN /\ lock' = [lock EXCEPT !.readers = @ \cup {t}]
            /\ th' = [th EXCEPT ![t].pc = "open",
                                ![t].content = to_string_pretty(config).text]
            /\ last' = last
       ELSE /\ lock' = lock
            /\ th' = [th EXCEPT ![t].pc = "done", ![t].ret = "IoError",
                                    ![t].failed = TRUE]
            /\ last' = ReturnedFrom(t, "IoError")
    /\ UNCHANGED <<config, disk, nops, obs, StateFrame>>

\* state/mod.rs:94, std::fs::write opens the file: created or truncated,
\* or the open fails
SaveOpen(t) ==
    \E opened \in BOOLEAN :
        /\ mode = "state"
        /\ th[t].pc = "open"
        /\ IF opened
           THEN /\ disk' = Truncated
                /\ lock' = lock
                /\ th' = [th EXCEPT ![t].pc = "write"]
                /\ last' = last
           ELSE /\ disk' = disk
                /\ lock' = [lock EXCEPT !.readers = @ \ {t}]
                /\ th' = [th EXCEPT ![t].pc = "done", ![t].ret = "IoError",
                                    ![t].failed = TRUE]
                /\ last' = ReturnedFrom(t, "IoError")
        /\ UNCHANGED <<config, nops, obs, StateFrame>>

\* state/mod.rs:94-95, std::fs::write writes the content from the start,
\* or the write fails with the file as the open left it
SaveWrite(t) ==
    \E written \in BOOLEAN :
        /\ mode = "state"
        /\ th[t].pc = "write"
        /\ IF written
           THEN /\ disk' = Holding(th[t].content
                                   \o SubSeq(disk.text, Len(th[t].content) + 1,
                                             Len(disk.text)))
                /\ lock' = lock
                /\ th' = [th EXCEPT ![t].pc = "written"]
                /\ last' = last
           ELSE /\ disk' = disk
                /\ lock' = [lock EXCEPT !.readers = @ \ {t}]
                /\ th' = [th EXCEPT ![t].pc = "done", ![t].ret = "IoError",
                                    ![t].failed = TRUE]
                /\ last' = ReturnedFrom(t, "IoError")
        /\ UNCHANGED <<config, nops, obs, StateFrame>>

\* state/mod.rs:97-98: Ok(()), the read guard dropped
SaveReturn(t) ==
    /\ mode = "state"
    /\ th[t].pc = "written"
    /\ lock' = [lock EXCEPT !.readers = @ \ {t}]
    /\ th' = [th EXCEPT ![t].pc = "done", ![t].ret = "Ok"]
    /\ last' = ReturnedFrom(t, "Ok")
    /\ UNCHANGED <<config, disk, nops, obs, StateFrame>>

\* the writer that holds the lock in the middle of its block, if any
Before == IF lock.writer # 0 THEN th[lock.writer].before ELSE config
After ==
    IF lock.writer # 0
    THEN Assigned(th[lock.writer].op, th[lock.writer].before, th[lock.writer].arg)
    ELSE config

\* state/mod.rs:103-106, 134-137, 149-152: self.config.read() and the
\* clone; what was read is kept with the config before and after the
\* write that was going on
Get(t) ==
    /\ mode = "state"
    /\ th[t].pc = "call" /\ th[t].op \in Getters
    /\ CanRead(lock)
    /\ obs' = {[op |-> th[t].op, val |-> Got(th[t].op, config),
                before |-> Got(th[t].op, Before), after |-> Got(th[t].op, After),
                writing |-> {u \in DOMAIN th : th[u].pc \in {"locked", "save", "open",
                                                            "write", "written"}}]}
    /\ th' = [th EXCEPT ![t].pc = "done", ![t].ret = "Ok"]
    /\ UNCHANGED <<config, disk, last, nops, lock, StateFrame>>

\* the call the first thread has returned from, if it has
Returned ==
    IF th[1].pc = "done" THEN <<th[1].op, th[1].arg, th[1].ret>> ELSE <<>>

\* lib.rs:27-35: the process ends wherever its threads are and starts
\* again, AppState::new(config_path) and load() on the same file
Restart ==
    /\ mode = "state"
    /\ nops < MaxRestarts
    /\ nops' = nops + 1
    /\ config' = load(DefaultConfig, disk).config
    /\ last' = [IdleLast EXCEPT !.op = "load", !.arg = Returned,
                                !.ret = load(DefaultConfig, disk).ret]
    /\ th' = [t \in DOMAIN th |-> [IdleThread EXCEPT !.calls = th[t].calls]]
    /\ lock' = FreeLock
    /\ obs' = NoObs
    /\ UNCHANGED <<disk, StateFrame>>

NextState ==
    \/ \E t \in DOMAIN th : Call(t)
    \/ \E t \in DOMAIN th : WriteLock(t)
    \/ \E t \in DOMAIN th : WriteUnlock(t)
    \/ \E t \in DOMAIN th : SaveLock(t)
    \/ \E t \in DOMAIN th : SaveOpen(t)
    \/ \E t \in DOMAIN th : SaveWrite(t)
    \/ \E t \in DOMAIN th : SaveReturn(t)
    \/ \E t \in DOMAIN th : Get(t)
    \/ Restart

\* one thread, one call after the other
SpecState1 == InitState({1}) /\ [][NextState]_vars

\* threads calling at the same time
SpecState2 == InitState(1..NumThreads) /\ [][NextState]_vars

-----------------------------------------------------------------------------
(* operations.rs:85-108, write_file_atomic one system call at a time, for  *)
(* writers of one target in one directory.  The directory holds the entry  *)
(* of the target and of its temp file `<name>.tmp`; an open file is an     *)
(* inode and an offset, as File::create returns it.                        *)

NumWriters == 2     \* concurrent callers of write_file_atomic on one target
MaxCalls == 2       \* calls of write_file_atomic made in one run
ContentLen == 2     \* bytes of a content, written one write(2) at a time

TargetName == "target"
TempName == "temp"

\* the contents writer w may be asked to write
Content(w, v) == [i \in 1..ContentLen |-> 100 * v + 10 * w + i]
Contents(w) == {Content(w, v) : v \in 1..2}
OldContent == [i \in 1..ContentLen |-> i]
StaleTemp == <<9>>
NoFile == <<-1>>
DirInode == <<-2>>  \* the target is a directory

\* the entry a write is sent to: the target itself, written in place
CreateName_inplace == TargetName
\* operations.rs:86-94, the entry File::create is given: temp_path
CreateName == TempName

Idle ==
    [pc |-> "start", fd |-> 0, off |-> 0, ret |-> "none", rm |-> "none",
     calls |-> 0, content |-> <<>>, before |-> <<>>, tempBefore |-> <<>>]

\* the directory after rename(2) has left the temp entry in place
Renamed_copy(d) == [d EXCEPT ![TargetName] = d[TempName]]
\* operations.rs:100, the directory after rename(temp_path, path)
Renamed(d) == [d EXCEPT ![TargetName] = d[TempName], ![TempName] = 0]

\* the directory when nothing is removed
Removed_kept(d) == d
\* operations.rs:104, the directory after remove_file(temp_path)
Removed(d) == [d EXCEPT ![TempName] = 0]

\* write(2) of one byte at an offset
WriteAt(data, off, byte) ==
    [i \in 1..(IF off + 1 > Len(data) THEN off + 1 ELSE Len(data)) |->
        IF i = off + 1 THEN byte
        ELSE IF i <= Len(data) THEN data[i]
        ELSE 0]

\* an inode without a directory entry and without an open file is freed
Reclaim(ino, d, w) ==
    [i \in DOMAIN ino |->
        IF (\E n \in DOMAIN d : d[n] = i) \/ (\E x \in DOMAIN w : w[x].fd = i)
        THEN ino[i] ELSE <<>>]

\* read_to_string of the target
TargetContent ==
    IF dirents[TargetName] = 0 THEN NoFile ELSE inodes[dirents[TargetName]]

RECURSIVE CallsMade(_)
\* the calls the callers in W have made so far
CallsMade(W) ==
    IF W = {} THEN 0
    ELSE LET w == CHOOSE x \in W : TRUE
         IN wr[w].calls + CallsMade(W \ {w})

\* what the entry `<name>.tmp` holds
TempContent ==
    IF dirents[TempName] = 0 THEN NoFile ELSE inodes[dirents[TempName]]

InitWrite(writers) ==
    /\ mode = "write"
    /\ \E old \in {NoFile, OldContent, DirInode}, hasTemp \in BOOLEAN :
         /\ inodes = (IF old # NoFile THEN <<old>> ELSE <<>>)
                     \o (IF hasTemp THEN <<StaleTemp>> ELSE <<>>)
         /\ dirents = [n \in {TargetName, TempName} |->
                         IF n = TargetName THEN (IF old # NoFile THEN 1 ELSE 0)
                         ELSE IF hasTemp THEN Len(inodes) ELSE 0]
    /\ wr = [w \in writers |-> Idle]
    /\ seen = [first |-> TargetContent, read |-> TargetContent]
    /\ rdonly \in BOOLEAN
    /\ IdleOthers
    /\ fs = CoreFS
    /\ config = DefaultConfig
    /\ disk = Absent
    /\ vTarget = <<>>
    /\ vResult = NotRun
    /\ last = IdleLast
    /\ nops = 0

WriteFrame == <<fs, config, disk, vTarget, vResult, last, nops, rdonly, Others, mode>>

\* operations.rs:94, File::create(&temp_path)?: create or truncate; a new
\* entry needs a writable directory, truncating an existing file does not
AwCreate(w) ==
    /\ mode = "write"
    /\ wr[w].pc = "start"
    /\ CallsMade(DOMAIN wr) < MaxCalls
    /\ \E c \in Contents(w) :
         LET call == [pc |-> "write", fd |-> 0, off |-> 0, ret |-> "none",
                      rm |-> "none", calls |-> wr[w].calls + 1,
                      content |-> c, before |-> TargetContent,
                      tempBefore |-> TempContent]
         IN IF dirents[CreateName] = 0 /\ rdonly
            THEN /\ wr' = [wr EXCEPT ![w] = [call EXCEPT !.pc = "done",
                                                        !.ret = ErrKind("EACCES")]]
                 /\ UNCHANGED <<dirents, inodes>>
            ELSE /\ IF dirents[CreateName] = 0
                    THEN /\ inodes' = Append(inodes, <<>>)
                         /\ dirents' = [dirents EXCEPT ![CreateName] = Len(inodes) + 1]
                    ELSE /\ inodes' = [inodes EXCEPT ![dirents[CreateName]] = <<>>]
                         /\ dirents' = dirents
                 /\ wr' = [wr EXCEPT ![w] = [call EXCEPT !.fd = dirents'[CreateName]]]
    /\ UNCHANGED <<seen, WriteFrame>>

\* operations.rs:95, write_all: one write(2) at the file's offset, or the
\* write fails and `?` returns the error with the file dropped
AwWrite(w) ==
    \E written \in BOOLEAN :
        /\ mode = "write"
        /\ wr[w].pc = "write"
        /\ IF written
           THEN /\ inodes' = [inodes EXCEPT ![wr[w].fd] =
                                 WriteAt(@, wr[w].off, wr[w].content[wr[w].off + 1])]
                /\ wr' = [wr EXCEPT ![w].off = @ + 1,
                                    ![w].pc = IF wr[w].off + 1 = ContentLen
                                              THEN "sync" ELSE "write"]
           ELSE /\ wr' = [wr EXCEPT ![w].pc = "done", ![w].fd = 0,
                                    ![w].ret = ErrKind("ENOSPC")]
                /\ inodes' = Reclaim(inodes, dirents, wr')
        /\ UNCHANGED <<dirents, seen, WriteFrame>>

\* operations.rs:96-97, sync_all and drop, or sync_all fails and `?`
\* returns the error with the file dropped
AwSync(w) ==
    \E synced \in BOOLEAN :
        /\ mode = "write"
        /\ wr[w].pc = "sync"
        /\ wr' = IF synced THEN [wr EXCEPT ![w].pc = "rename", ![w].fd = 0]
                 ELSE [wr EXCEPT ![w].pc = "done", ![w].fd = 0, ![w].ret = ErrKind("EIO")]
        /\ inodes' = Reclaim(inodes, dirents, wr')
        /\ UNCHANGED <<dirents, seen, WriteFrame>>

\* rename(2) of the temp entry onto the target: the errno, "none" on success
RenameErrno ==
    IF dirents[TempName] = 0 THEN "ENOENT"
    ELSE IF rdonly THEN "EACCES"
    ELSE IF TargetContent = DirInode THEN "EISDIR"
    ELSE "none"

\* operations.rs:100-102 and 105, fs::rename(&temp_path, path): Ok(()) or the
\* error the call will return once the temp file has been cleaned up
AwRename(w) ==
    /\ mode = "write"
    /\ wr[w].pc = "rename"
    /\ IF RenameErrno = "none"
       THEN /\ dirents' = Renamed(dirents)
            /\ wr' = [wr EXCEPT ![w].pc = "done", ![w].ret = "Ok"]
       ELSE /\ dirents' = dirents
            /\ wr' = [wr EXCEPT ![w].pc = "cleanup", ![w].ret = ErrKind(RenameErrno)]
    /\ inodes' = Reclaim(inodes, dirents', wr')
    /\ UNCHANGED <<seen, WriteFrame>>

\* operations.rs:104-105, let _ = fs::remove_file(&temp_path); Err(e.into())
AwCleanup(w) ==
    /\ mode = "write"
    /\ wr[w].pc = "cleanup"
    /\ IF dirents[TempName] = 0
       THEN /\ dirents' = dirents
            /\ wr' = [wr EXCEPT ![w].pc = "done", ![w].rm = "ENOENT"]
       ELSE IF rdonly
       THEN /\ dirents' = dirents
            /\ wr' = [wr EXCEPT ![w].pc = "done", ![w].rm = "EACCES"]
       ELSE /\ dirents' = Removed(dirents)
            /\ wr' = [wr EXCEPT ![w].pc = "done", ![w].rm = "Ok"]
    /\ inodes' = Reclaim(inodes, dirents', wr')
    /\ UNCHANGED <<seen, WriteFrame>>

\* the call has returned; the caller may call again
AwReturn(w) ==
    /\ mode = "write"
    /\ wr[w].pc = "done"
    /\ CallsMade(DOMAIN wr) < MaxCalls
    /\ wr' = [wr EXCEPT ![w].pc = "start"]
    /\ UNCHANGED <<dirents, inodes, seen, WriteFrame>>

\* the process dies inside the call
Crash(w) ==
    /\ mode = "write"
    /\ wr[w].pc \in {"write", "sync", "rename", "cleanup"}
    /\ wr' = [wr EXCEPT ![w].pc = "crashed", ![w].fd = 0]
    /\ inodes' = Reclaim(inodes, dirents, wr')
    /\ UNCHANGED <<dirents, seen, WriteFrame>>

\* file_ops.rs:30-47, another command reads the target
ReadTarget ==
    /\ mode = "write"
    /\ seen' = [seen EXCEPT !.read = TargetContent]
    /\ UNCHANGED <<dirents, inodes, wr, WriteFrame>>

NextWrite ==
    \/ \E w \in DOMAIN wr : AwCreate(w)
    \/ \E w \in DOMAIN wr : AwWrite(w)
    \/ \E w \in DOMAIN wr : AwSync(w)
    \/ \E w \in DOMAIN wr : AwRename(w)
    \/ \E w \in DOMAIN wr : AwCleanup(w)
    \/ \E w \in DOMAIN wr : AwReturn(w)
    \/ \E w \in DOMAIN wr : Crash(w)
    \/ ReadTarget

\* one call of write_file_atomic
SpecWrite1 == InitWrite({1}) /\ [][NextWrite]_vars

\* concurrent calls on the same target
SpecWrite2 == InitWrite(1..NumWriters) /\ [][NextWrite]_vars

-----------------------------------------------------------------------------
(* Properties of validate_path *)

Ran == vResult # NotRun

\* the canonical root, and whether a location is it or lies below it
RootCanon == Canonicalize(fs, get_workspace(config).path)
Within(loc, root) == IsPrefixSeq(root, loc)

\* where the target leads: an absolute target is resolved from /, a relative
\* one from the root directory
TargetWalk ==
    Walk(fs, IF IsAbsolute(vTarget) THEN <<>> ELSE RootCanon.loc,
         RawSplit(vTarget), LinkDepth)

\* the same for the target without its last component
TargetHasParent ==
    IF IsAbsolute(vTarget) THEN Components(vTarget) # <<>>
    ELSE Components(vTarget) # <<>> \/ RootCanon.loc # <<>>
TargetParentWalk ==
    LET cs == Components(vTarget) IN
    IF cs = <<>>
    THEN OkLoc(SubSeq(RootCanon.loc, 1, Len(RootCanon.loc) - 1))
    ELSE Walk(fs, IF IsAbsolute(vTarget) THEN <<>> ELSE RootCanon.loc,
              SubSeq(cs, 1, Len(cs) - 1), LinkDepth)

\* the target written out below the root, unresolved
Joined ==
    IF IsAbsolute(vTarget) THEN vTarget
    ELSE ToStr(RootCanon.loc) \o <<"/">> \o vTarget

\* the target names the root, something below it, or a new entry of a
\* directory that is the root or below it
Inside ==
    /\ RootCanon.ok
    /\ IF TargetWalk.ok THEN Within(TargetWalk.loc, RootCanon.loc)
       ELSE /\ TargetHasParent
            /\ TargetParentWalk.ok
            /\ Within(TargetParentWalk.loc, RootCanon.loc)

\* C2: every target that contains ".." anywhere is answered with
\* PathTraversal, whatever the root is and whether or not the target exists
C2_DotDotRejected ==
    (Ran /\ Contains(vTarget, DotDot)) => vResult = Err("PathTraversal")

C2_Witness ==
    /\ Ran
    /\ vTarget = <<"a", ".", ".", "b">>
    /\ ~RootCanon.ok
    /\ vResult = Err("PathTraversal")

\* C3 (as amended): for an existing target that does not contain "..",
\* under a root that canonicalizes, validate_path returns Ok with the
\* canonical path exactly when that path is the canonical root or a
\* segment-wise descendant of it, and PathTraversal otherwise
C3_ExistingTarget ==
    (Ran /\ RootCanon.ok /\ ~Contains(vTarget, DotDot) /\ TargetWalk.ok)
        => vResult = IF Within(TargetWalk.loc, RootCanon.loc)
                     THEN Ok(ToStr(TargetWalk.loc))
                     ELSE Err("PathTraversal")

\* C3 as stated: every existing target whose canonical path is the root or
\* below it is accepted
C3_Original ==
    (Ran /\ RootCanon.ok /\ TargetWalk.ok)
        => vResult = IF Within(TargetWalk.loc, RootCanon.loc)
                     THEN Ok(ToStr(TargetWalk.loc))
                     ELSE Err("PathTraversal")

\* a path through a symlink that leaves the root is rejected
C3_Witness ==
    /\ Ran
    /\ get_workspace(config).path = <<"/", "a">>
    /\ vTarget = <<"l", "/", "b">>
    /\ TargetWalk = OkLoc(<<nAB, nB>>)
    /\ vResult = Err("PathTraversal")

\* C4: an absolute target that lies outside the workspace root is answered
\* with PathTraversal or InvalidPath, never with Ok
C4_AbsoluteOutside ==
    (Ran /\ IsAbsolute(vTarget) /\ ~Inside)
        => vResult.kind \in {"PathTraversal", "InvalidPath"}

\* the sibling /ab/b against the root /a
C4_Witness ==
    /\ Ran
    /\ RootCanon = OkLoc(<<nA>>)
    /\ vTarget = <<"/", "a", "b", "/", "b">>
    /\ vResult = Err("PathTraversal")

\* C5: a relative target without ".." that resolves inside an existing
\* workspace is answered with Ok and an absolute path that is the canonical
\* root or a descendant of it; the empty target gives the canonical root
C5_ValidRelative ==
    (Ran /\ ~IsAbsolute(vTarget) /\ ~Contains(vTarget, DotDot) /\ Inside)
        => /\ vResult.kind = "Ok"
           /\ IsAbsolute(vResult.path)
           /\ IsPrefixSeq(RootCanon.loc, Components(vResult.path))
           /\ vTarget = <<>> => vResult.path = ToStr(RootCanon.loc)

\* the empty target under a workspace opened through a symlink
C5_Witness ==
    /\ Ran
    /\ get_workspace(config).path = <<"/", "a", "/", "l">>
    /\ RootCanon = OkLoc(<<nA, nB>>)
    /\ vTarget = <<>>
    /\ vResult = Ok(<<"/", "a", "/", "b">>)

-----------------------------------------------------------------------------
(* Properties of the commands *)

\* C1: whatever the file system holds (symlinks included) and whatever
\* path strings the commands are given, every location a command reads,
\* creates, changes or removes is the workspace root or lies below it
C1_SandboxBoundary ==
    \A loc \in last.touched : last.ws.some /\ Within(loc, last.root)

PathOps ==
    { "read_file", "write_file", "create_file", "rename_path", "delete_path",
      "upload_image", "create_folder", "read_directory", "get_directory_page" }

\* C7 (as amended): a path-taking command invoked while no workspace is
\* open returns an error and makes no file-system access; the error is
\* InvalidPath, except that upload_image tests the size of the data first and
\* answers FileTooLarge for data above MAX_IMAGE_SIZE
C7_NoWorkspace ==
    (last.op \in PathOps /\ ~last.ws.some)
        => /\ last.touched = {}
           /\ last.called = {}
           /\ \/ last.ret = "InvalidPath"
              \/ last.op = "upload_image" /\ last.big /\ last.ret = "FileTooLarge"

\* C7 as stated: the error is InvalidPath for every path-taking command
C7_Original ==
    (last.op \in PathOps /\ ~last.ws.some)
        => /\ last.touched = {}
           /\ last.called = {}
           /\ last.ret = "InvalidPath"

\* a write refused after the workspace was opened and closed again
C7_Witness ==
    /\ last.op = "write_file"
    /\ ~last.ws.some
    /\ config.last_dialog_dir.some
    /\ last.ret = "InvalidPath"
    /\ last.touched = {}

\* C8: every path a command hands to a file-system operation is a path
\* the validator returned to that command for the current workspace
C8_ValidatedFirst ==
    \A p \in last.called : Ok(p) \in last.validated

-----------------------------------------------------------------------------
(* Properties of write_file_atomic *)

InFlight(w) == wr[w].pc \in {"write", "sync", "rename", "cleanup", "crashed"}

\* C9: at every step of one atomic write, and when the process dies at any
\* of them, the target holds all of the old content (or is absent as
\* before) or all of the new content
C9_CrashAtomic ==
    \A w \in DOMAIN wr :
        /\ InFlight(w) => TargetContent = wr[w].before
        /\ wr[w].pc = "done" =>
               TargetContent = IF wr[w].ret = "Ok" THEN wr[w].content ELSE wr[w].before

\* the process died with the temp file half written; the target is as before
C9_Witness ==
    /\ wr[1].pc = "crashed"
    /\ dirents[TempName] # 0
    /\ inodes[dirents[TempName]] = <<wr[1].content[1]>>
    /\ seen.first = OldContent
    /\ TargetContent = OldContent

\* C10: with concurrent atomic writes to one target, the target and every
\* read of it hold the old content or the whole content of one writer, and
\* when all writers have returned the target holds the whole content one of
\* them wrote last
C10_ConcurrentWrites ==
    LET complete == {seen.first} \cup UNION {Contents(w) : w \in DOMAIN wr} IN
    /\ TargetContent \in complete
    /\ seen.read \in complete
    /\ ((\A w \in DOMAIN wr : wr[w].pc = "done")
            /\ (\E w \in DOMAIN wr : wr[w].ret = "Ok"))
           => TargetContent \in {wr[w].content : w \in {x \in DOMAIN wr : wr[x].ret = "Ok"}}

\* C11 (as amended): when the rename step of one atomic write fails, the
\* call returns the rename's error whatever remove_file answers, the target
\* is as it was before the call, and the temp file is gone when remove_file
\* succeeded; when remove_file fails too, the temp file stays
C11_RenameFailure ==
    \A w \in DOMAIN wr :
        (wr[w].pc = "done" /\ wr[w].rm # "none")
            => /\ wr[w].ret = IF rdonly THEN "PermissionDenied" ELSE "IoError"
               /\ TargetContent = wr[w].before
               /\ wr[w].rm = "Ok" => dirents[TempName] = 0

\* C11 as stated: after a failed rename the temp file never exists
C11_Original ==
    \A w \in DOMAIN wr :
        (wr[w].pc = "done" /\ wr[w].rm # "none")
            => /\ wr[w].ret = IF rdonly THEN "PermissionDenied" ELSE "IoError"
               /\ TargetContent = wr[w].before
               /\ dirents[TempName] = 0

\* the target is a directory: the rename fails, the temp file is removed
C11_Witness ==
    /\ wr[1].pc = "done"
    /\ wr[1].rm = "Ok"
    /\ wr[1].ret = "IoError"
    /\ TargetContent = DirInode
    /\ dirents[TempName] = 0

\* C12: after every successful atomic write the target holds exactly the
\* content written and no temp file is left, so a second write of the same
\* content leaves the bytes the first one left
C12_Idempotent ==
    \A w \in DOMAIN wr :
        (wr[w].pc = "done" /\ wr[w].ret = "Ok")
            => /\ TargetContent = wr[w].content
               /\ dirents[TempName] = 0

\* the second of two writes of the same content has returned
C12_Witness ==
    /\ wr[1].pc = "done"
    /\ wr[1].ret = "Ok"
    /\ wr[1].calls = 2
    /\ wr[1].before = wr[1].content
    /\ TargetContent = wr[1].content
    /\ dirents[TempName] = 0

-----------------------------------------------------------------------------
(* Properties of the other operations *)

\* C13: create_file on a path that already exists returns an error and
\* leaves the file system, the existing file's content included, as it was
C13_CreateExclusive ==
    [][(mode = "cmd" /\ nops' = nops + 1 /\ last'.op = "create_file")
          => \A p \in last'.called :
                 Canonicalize(fs, p).ok => last'.ret # "Ok" /\ fs' = fs]_vars

\* the tree below a location, by the names relative to it
TreeAt(f, loc) ==
    [rel \in {SubSeq(x, Len(loc) + 1, Len(x)) : x \in Subtree(f, loc)} |-> f[loc \o rel]]

\* C14: rename_path does what the direct rename does when that succeeds,
\* returns its error without touching anything when it fails with anything
\* but the cross-device condition, and when the copy-then-delete fallback
\* returns Ok the destination holds the tree the source held and the source
\* is gone
C14_RenameFallback ==
    [][(mode = "rename" /\ nops' = nops + 1)
          => LET old_path == last'.arg[1]
                 new_path == last'.arg[2]
                 direct == os_rename(fs, old_path, new_path)
             IN /\ direct.err = "none" => last'.ret = "Ok" /\ fs' = direct.fs
                /\ direct.err \notin {"none", "EXDEV"}
                       => last'.ret = ErrKind(direct.err) /\ fs' = fs
                /\ (direct.err = "EXDEV" /\ last'.ret = "Ok")
                       => /\ TreeAt(fs', Entry(fs, new_path).loc)
                                = TreeAt(fs, Entry(fs, old_path).loc)
                          /\ Entry(fs, old_path).loc \notin DOMAIN fs']_vars


\* the listing a successful scanner call sorted
Listed(op) == scan.op = op /\ scan.ans.ret = "Ok"

\* directories first, and names in case-insensitive order within a group
InOrder(v) ==
    \A i \in DOMAIN v : \A j \in DOMAIN v :
        i < j => /\ ~(v[i].is_file /\ ~v[j].is_file)
                 /\ v[i].is_file = v[j].is_file
                        => ~StrLess(to_lowercase(v[j].name), to_lowercase(v[i].name))

\* C15: what scan_directory returns holds each listed entry once, the
\* directories before the files and the names of each group in
\* non-decreasing case-insensitive order, and it is the same for every
\* order in which the entries were walked.
C15_ScanOrder ==
    (mode = "scan" /\ Listed("scan_directory"))
        => /\ Len(scan.ans.out) = Cardinality({scan.ans.out[i].name : i \in DOMAIN scan.ans.out})
           /\ {scan.ans.out[i].name : i \in DOMAIN scan.ans.out}
                  = {n \in NamesIn(fs, scan.path) : scan.include_hidden \/ n[1] # "."}
           /\ InOrder(scan.ans.out)
           /\ \A other \in Scans(fs, scan.path, scan.include_hidden) :
                  other.out = scan.ans.out

\* C16: a page holds the entries offset .. min(offset + limit, n) of the
\* sorted listing of length n, in order, with total_count = n and has_more
\* exactly when offset + len(nodes) < n.
C16_Page ==
    (mode = "scan" /\ scan.op = "get_directory_page"
       /\ Canonicalize(fs, scan.path).ok /\ IsDir(fs, Canonicalize(fs, scan.path).loc))
        => /\ scan.ans.ret = "Ok"
           /\ scan.ans.out.nodes
                  = SubSeq(scan.all, scan.offset + 1,
                           Min(scan.offset + scan.limit, Len(scan.all)))
           /\ scan.ans.out.total_count = Len(scan.all)
           /\ scan.ans.out.has_more
                  <=> scan.offset + Len(scan.ans.out.nodes) < Len(scan.all)

\* the nodes an answer holds at the top
TopNodes ==
    IF scan.op = "scan_directory" THEN {scan.ans.out[i] : i \in DOMAIN scan.ans.out}
    ELSE IF scan.op = "get_directory_page"
    THEN {scan.ans.out.nodes[i] : i \in DOMAIN scan.ans.out.nodes}
    ELSE {scan.ans.out}

ChildNodes(node) == {node.children.list[i] : i \in DOMAIN node.children.list}

\* C17: the node read_directory_lazy returns has children present and
\* equal to a depth-1 scan of the directory, each child has children
\* absent, and no scanner operation returns a node with grandchildren.
C17_Lazy ==
    (mode = "scan" /\ scan.op # "none" /\ scan.ans.ret = "Ok")
        => /\ scan.op = "read_directory_lazy"
                  => /\ scan.ans.out.children.some
                     /\ \E s \in Scans(fs, scan.path, scan.include_hidden) :
                            scan.ans.out.children.list = s.out
                     /\ \A c \in ChildNodes(scan.ans.out) : ~c.children.some
           /\ \A node \in TopNodes : \A c \in ChildNodes(node) : ChildNodes(c) = {}

\* a subdirectory that holds a file comes back without children
C17_Witness ==
    /\ mode = "scan" /\ Listed("read_directory_lazy")
    /\ scan.path = ToStr(<<nA>>)
    /\ <<nA, nL, nA>> \in DOMAIN fs
    /\ \E c \in ChildNodes(scan.ans.out) :
           c.name = nL /\ ~c.is_file /\ ~c.children.some
    /\ Cardinality(ChildNodes(scan.ans.out)) = 3


\* a mutator between taking the write lock and returning from save
Mutating(t) == th[t].pc \in {"locked", "save", "open", "write", "written"}

C19_NoTornRead ==
    mode = "state" => \A o \in obs : o.val \in {o.before, o.after}

\* get_config while a set_workspace is on its way to the file
C19_Witness ==
    /\ mode = "state"
    /\ \E o \in obs :
           /\ o.op = "get_config"
           /\ \E u \in o.writing : th[u].op = "set_workspace"
                                     /\ o.val = set_workspace(th[u].before, th[u].arg)
                                     /\ o.val.workspace_dir # th[u].before.workspace_dir

\* a process just started: nothing called yet
Fresh == last.op = "load" /\ \A t \in DOMAIN th : th[t].pc = "idle"

\* C20: when the process restarts after set_workspace(P) returned success,
\* load() gives workspace and last dialog directory P; after
\* set_last_dialog_dir(D) returned success it gives last dialog directory D.
C20_RestartRoundTrip ==
    (mode = "state" /\ DOMAIN th = {1} /\ Fresh /\ last.arg # <<>>)
        => LET op == last.arg[1]  P == last.arg[2]  ret == last.arg[3]
           IN /\ (op = "set_workspace" /\ ret = "Ok")
                     => /\ last.ret = "Ok"
                        /\ get_workspace(config) = SomeWs(P)
                        /\ config.last_dialog_dir = SomeWs(P)
              /\ (op = "set_last_dialog_dir" /\ ret = "Ok")
                     => /\ last.ret = "Ok"
                        /\ config.last_dialog_dir = SomeWs(P)

\* a workspace whose name holds a quote, read back after the restart
C20_Witness ==
    /\ mode = "state" /\ DOMAIN th = {1} /\ Fresh
    /\ last.arg = <<"set_workspace", <<"/", Quote>>, "Ok">>
    /\ get_workspace(config) = SomeWs(<<"/", Quote>>)
    /\ disk.present /\ Len(disk.text) > 5


\* C21: at start load() returns Ok and leaves the defaults when there is no
\* config file; when the file is there and malformed it returns an error
\* with the config unchanged, and the error is a hard one: the process does
\* not go on to serve calls on the defaults.
C21_LoadError ==
    (mode = "state" /\ last.op = "load")
        => /\ (Fresh /\ ~disk.present) => last.ret = "Ok" /\ config = DefaultConfig
           /\ (Fresh /\ disk.present /\ ~from_str(disk.text).ok)
                  => last.ret = "IoError" /\ config = DefaultConfig
           /\ last.ret = "IoError" => \A t \in DOMAIN th : th[t].pc = "idle"


\* the call a thread has returned from
Done_(t, op, ret) == th[t].pc = "done" /\ th[t].op = op /\ th[t].ret = ret

\* C22: set_workspace(P) assigns workspace and last dialog directory inside
\* one write-lock block and then saves; when it has returned Ok, both are
\* P and the config file holds them.
C22_Open ==
    mode = "state"
        => \A t \in DOMAIN th :
               th[t].op = "set_workspace"
                   => /\ th[t].pc = "locked" => lock.writer = t /\ lock.readers = {}
                      /\ Done_(t, "set_workspace", "Ok")
                             => /\ Got("get_workspace", config) = SomeWs(th[t].arg)
                                /\ Got("get_last_dialog_dir", config) = SomeWs(th[t].arg)
                                /\ disk = Stored(config)

\* a workspace opened over the one an earlier run had left
C22_Witness ==
    /\ mode = "state" /\ DOMAIN th = {1}
    /\ Done_(1, "set_workspace", "Ok")
    /\ th[1].arg = <<"/", Backslash, "a">>
    /\ th[1].before = PriorConfig
    /\ config = set_workspace(PriorConfig, th[1].arg)
    /\ disk = Stored(config)

C24_Frame ==
    mode = "state"
        => \A t \in DOMAIN th :
               /\ (th[t].pc = "done" /\ th[t].op = "clear_workspace")
                      => /\ config.workspace_dir = NoWs
                         /\ config.last_dialog_dir = th[t].before.last_dialog_dir
                         /\ th[t].ret = "Ok" => disk = Stored(config)
               /\ (th[t].pc = "done" /\ th[t].op = "set_last_dialog_dir")
                      => /\ config.last_dialog_dir = SomeWs(th[t].arg)
                         /\ config.workspace_dir = th[t].before.workspace_dir
                         /\ th[t].ret = "Ok" => disk = Stored(config)

\* a workspace closed with its dialog directory kept
C24_Witness ==
    /\ mode = "state" /\ DOMAIN th = {1}
    /\ Done_(1, "clear_workspace", "Ok")
    /\ th[1].before = PriorConfig
    /\ config = [workspace_dir |-> NoWs, last_dialog_dir |-> SomeWs(<<"/", "a", "b">>)]
    /\ disk = Stored(config)


\* the source of a rename is as it was: its subtree, node for node
SourceIntact(f, g, old_path) ==
    /\ Entry(f, old_path).ok
    /\ TreeAt(g, Entry(f, old_path).loc) = TreeAt(f, Entry(f, old_path).loc)

\* what the copy of the fallback returns, given the call and its state
CopyErr(f, old_path, new_path) == copy_recursive(f, old_path, new_path, CopyDepth).err

\* C25: in the cross-device fallback of rename_path, when the copy fails at
\* an entry rename_path returns that error and the source subtree is as it
\* was; the source is changed only when the whole copy has succeeded.
C25_CopyBeforeDelete ==
    [][(mode = "rename" /\ nops' = nops + 1
          /\ os_rename(fs, last'.arg[1], last'.arg[2]).err = "EXDEV")
          => /\ CopyErr(fs, last'.arg[1], last'.arg[2]) # "none"
                   => /\ last'.ret = ErrKind(CopyErr(fs, last'.arg[1], last'.arg[2]))
                      /\ SourceIntact(fs, fs', last'.arg[1])
             /\ ~SourceIntact(fs, fs', last'.arg[1])
                   => CopyErr(fs, last'.arg[1], last'.arg[2]) = "none"]_vars

\* the copy of /a/l to the other volume stopped at the dangling symlink:
\* an error, the source whole, a part of the destination there
C25_Witness ==
    /\ mode = "rename" /\ last.op = "rename_path"
    /\ last.arg = <<ToStr(<<nA, nL>>), ToStr(<<nA, nB, nA>>)>>
    /\ last.ret \notin {"Ok", "none"}
    /\ {<<nA, nL>>, <<nA, nL, nA>>, <<nA, nL, nB>>, <<nA, nL, nL>>} \subseteq DOMAIN fs
    /\ fs[<<nA, nL, nL>>] = Link(<<"/", "n">>)
    /\ fs[<<nA, nL, nA>>] = File(New)
    /\ <<nA, nB, nA>> \in DOMAIN fs


\* C26: write_file_atomic changes the target only: a file `<name>.tmp`
\* that was in the directory when the call began is there, with the same
\* content, when the call has returned, Ok or not.
C26_OnlyTarget ==
    mode = "write"
        => \A w \in DOMAIN wr :
               (wr[w].pc = "done" /\ wr[w].tempBefore # NoFile)
                   => TempContent = wr[w].tempBefore

\* C27: when write_file_atomic returns an error from a step before the
\* rename (File::create, write_all, sync_all), no temp file the call
\* created is left and the target is as it was.
C27_NoLeftover ==
    mode = "write"
        => \A w \in DOMAIN wr :
               (wr[w].pc = "done" /\ wr[w].ret # "Ok" /\ wr[w].rm = "none")
                   => /\ wr[w].tempBefore = NoFile => dirents[TempName] = 0
                      /\ TargetContent = wr[w].before


\* C28: get_directory_page answers with a page for every offset and limit
\* of the machine word; when offset + limit exceeds the largest value the
\* page is the listing from offset to its end, empty for an offset at or
\* beyond the end.
C28_NoPanic ==
    (mode = "scan" /\ scan.op = "get_directory_page"
       /\ Canonicalize(fs, scan.path).ok /\ IsDir(fs, Canonicalize(fs, scan.path).loc))
        => /\ scan.ans.ret = "Ok"
           /\ Overflows(scan.offset, scan.limit)
                  => scan.ans.out.nodes
                         = SubSeq(scan.all, scan.offset + 1, Len(scan.all))


\* the target does not resolve and neither does the target without its
\* last component: more than one trailing component is missing
MultiMissing ==
    /\ Ran
    /\ RootCanon.ok
    /\ ~TargetWalk.ok
    /\ TargetHasParent
    /\ ~TargetParentWalk.ok

\* C29 as stated: a target with more than one missing trailing component
\* is always answered with InvalidPath
C29_Original ==
    MultiMissing => vResult = Err("InvalidPath")

\* C29 (as amended): a target with more than one missing trailing
\* component is never answered with Ok: it is answered with PathTraversal
\* when it contains ".." and with InvalidPath otherwise
C29_MultiMissing ==
    MultiMissing
        => vResult = IF Contains(vTarget, DotDot)
                     THEN Err("PathTraversal") ELSE Err("InvalidPath")

\* b/l/a under the root /a, where /a/b exists and /a/b/l does not
C29_Witness ==
    /\ MultiMissing
    /\ get_workspace(config).path = <<"/", "a">>
    /\ vTarget = <<"b", "/", "l", "/", "a">>
    /\ IsDir(fs, <<nA, nB>>)
    /\ vResult = Err("InvalidPath")


\* C30: a command validated against a workspace that has been closed, or
\* replaced by an open of another root, before its file I/O runs touches
\* nothing under the previous root unless that lies inside the workspace
\* active at the moment of the I/O.
C30_ActiveWorkspaceOnly ==
    (mode = "race" /\ th[1].pc = "done" /\ th[1].v.kind = "Ok"
       /\ th[1].active # th[1].ws)
        => \A loc \in th[1].touched :
               Within(loc, th[1].root)
                   => th[1].active.some /\ Within(loc, th[1].activeRoot)

\* a command whose workspace was the same at its validation and at its
\* file I/O touches, under that root, locations inside it only
C30_Sequential ==
    (mode = "race" /\ th[1].pc = "done" /\ th[1].v.kind = "Ok"
       /\ th[1].active = th[1].ws)
        => \A loc \in th[1].touched :
               Within(loc, th[1].root)
                   => th[1].active.some /\ Within(loc, th[1].activeRoot)

====
